---------------------------- MODULE Spec2Model ----------------------------
(***************************************************************************)
(* Surf-foil game: the Gerstner surface field (WavePhysicsBridge and the   *)
(* vertex shader of WaveSurface) and the rider stepper (Player.useFrame in *)
(* App.tsx) with the React state that gates it.                            *)
(*                                                                         *)
(* Numbers.  The program computes in IEEE doubles (CPU) and floats (GPU).  *)
(* The model computes in fixed point with three decimals: a quantity q of  *)
(* the program is the integer 1000*q (metres -> millimetres, radians ->    *)
(* milliradians, seconds -> milliseconds, m/s -> mm/s).  Products are      *)
(* rescaled by Mul, quotients by Ratio, both rounding toward zero.  NaN is *)
(* the one non-finite value that the stepper can produce; it is modelled   *)
(* by the value NaN where it can arise.                                    *)
(***************************************************************************)
EXTENDS Integers, Sequences, FiniteSets, TLC

\* the fixed-point scale: three decimals
S == 10 * 100

Abs(a) == IF a < 0 THEN -a ELSE a
Min(a, b) == IF a < b THEN a ELSE b
Max(a, b) == IF a > b THEN a ELSE b
Sign(a) == IF a < 0 THEN -1 ELSE 1

\* a / b on integers, rounded toward zero (b # 0)
Quot(a, b) ==
    IF b > 0 THEN (IF a >= 0 THEN a \div b ELSE -((-a) \div b))
             ELSE (IF a >= 0 THEN -(a \div (-b)) ELSE (-a) \div (-b))
\* fixed-point product and quotient
Mul(a, b) == Quot(a * b, S)
Ratio(a, b) == Quot(a * S, b)

\* `const v = e` followed by the statements F of v: e is evaluated once
Bind(e, F(_)) == CHOOSE r \in {F(v) : v \in {e}} : TRUE

\* THREE.MathUtils.clamp(value, min, max) = Math.max(min, Math.min(max, value))
Clamp(value, lo, hi) == Max(lo, Min(hi, value))

\* THREE.MathUtils.lerp(x, y, t) = (1 - t) * x + t * y
Lerp(x, y, t) == Quot((S - t) * x + t * y, S)

RECURSIVE SqrtSearch(_, _, _)
SqrtSearch(n, lo, hi) ==
    IF lo >= hi THEN lo
    ELSE LET mid == (lo + hi + 1) \div 2
         IN  IF mid * mid <= n THEN SqrtSearch(n, mid, hi)
                               ELSE SqrtSearch(n, lo, mid - 1)
\* floor of the square root of a natural number below 2^31
ISqrt(n) == SqrtSearch(n, 0, 46340)
\* Math.sqrt on a fixed-point value (v >= 0, v < 2147 units): sqrt(v/S)*S
Sqrt(v) == ISqrt(v * S)

\* Math.PI
PI == 3142
\* the period of Math.sin / Math.cos
PERIOD == 2 * PI - 1

\* sin on [0, PI] (Bhaskara's rational approximation, error below 0.002)
SinHalf(x) ==
    LET p == x * (PI - x)
    IN  Quot(16 * p, Quot(5 * PI * PI - 4 * p, S))
\* one period of the sine, tabulated
SinTable == [r \in 0..(PERIOD - 1) |->
                IF r <= PI THEN SinHalf(r) ELSE -SinHalf(Min(r - PI, PI))]
\* Math.sin / GLSL sin of an angle in milliradians
Sin(f) == SinTable[f % PERIOD]
\* Math.cos / GLSL cos
Cos(f) == Sin(f + 1571)

Vec(x, y, z) == [x |-> x, y |-> y, z |-> z]
ZeroVec == Vec(0, 0, 0)

(***************************************************************************)
(* WavePhysicsBridge: configuration                                        *)
(***************************************************************************)
WAVES == <<
    [dirX |-> 0,    dirZ |-> 1000, steepness |-> 120, wavelength |-> 25000,
     amplitude |-> 1200, speed |-> 4000],
    [dirX |-> 150,  dirZ |-> 990,  steepness |-> 80,  wavelength |-> 15000,
     amplitude |-> 400,  speed |-> 3500],
    [dirX |-> -200, dirZ |-> 980,  steepness |-> 60,  wavelength |-> 8000,
     amplitude |-> 150,  speed |-> 5000] >>
WAVE_COUNT == Len(WAVES)

SHORE_ANGLE == 420
DEPTH_DEEP == 10000
DEPTH_SHALLOW == 1500
SHORE_Z_CENTER == 30000
DEPTH_GRADIENT == 120

\* the literal 2 * Math.PI of gerstnerDisplace, three decimals
TWO_PI == 6283

\* z - x * SHORE_ANGLE
EffectiveZ(x, z) == z - Mul(x, SHORE_ANGLE)

\* getDepth without the lower clamp Math.max(DEPTH_SHALLOW, ...)
getDepthNoFloor(x, z) ==
    Min(DEPTH_DEEP, DEPTH_DEEP - Mul(EffectiveZ(x, z) - SHORE_Z_CENTER, DEPTH_GRADIENT))

getDepth(x, z) ==
    LET effectiveZ == EffectiveZ(x, z)
        rawDepth == DEPTH_DEEP - Mul(effectiveZ - SHORE_Z_CENTER, DEPTH_GRADIENT)
    IN  Max(DEPTH_SHALLOW, Min(DEPTH_DEEP, rawDepth))

getDepthAt(x, z) == getDepth(x, z)

\* GLSL-compatible smoothstep (CPU port)
smoothstep(edge0, edge1, x) ==
    Bind(Max(0, Min(Ratio(x - edge0, edge1 - edge0), S)), LAMBDA t :
        Mul(Mul(t, t), 3 * S - 2 * t))

\* the phase k * (dirX * x + dirZ * z - speed * time) with k = twoPi / wavelength;
\* the product is taken before the division so that no digit of k is lost
Phase(twoPi, w, x, z, time) ==
    Quot(twoPi * (Mul(w.dirX, x) + Mul(w.dirZ, z) - Mul(w.speed, time)), w.wavelength)

\* one wave's shoaled amplitude, steepness and Q at depth `depth`
\* (gerstnerDisplace, the loop body up to q)
ShoalWeightOther == 300
SteepnessCeiling == 400
QCeiling == 500
\* 1.0 / Math.sqrt(depthRatio), tabulated over the depth ratios in [0.05, 1]
ShoalFactorTable == [r \in 50..S |-> Ratio(S, Sqrt(r))]
\* the loop body with the shoaling of the primary swell only (weights 1 and 0)
ConfigTermsPrimaryOnly(cfg, i, depth) ==
    Bind(cfg[i], LAMBDA w :
    Bind(S + Mul(ShoalFactorTable[Max(Ratio(depth, DEPTH_DEEP), 50)] - S,
                 IF i = 1 THEN S ELSE 0), LAMBDA effectiveShoal :
    Bind(Mul(w.amplitude, effectiveShoal), LAMBDA amplitude :
    Bind(Min(Mul(w.steepness, effectiveShoal), SteepnessCeiling), LAMBDA steepness :
    Bind(Ratio(steepness, Mul(Mul(Ratio(TWO_PI, w.wavelength), amplitude), Len(cfg) * S)),
         LAMBDA qRaw :
        [effectiveShoal |-> effectiveShoal, a |-> amplitude,
         steepness |-> steepness, qRaw |-> qRaw,
         q |-> Max(0, Min(qRaw, QCeiling))])))))
\* the loop body of gerstnerDisplace up to q for wave i of the array cfg; qRaw
\* is steepness / (k * amplitude * WAVE_COUNT) before Math.min and Math.max
ConfigTerms(cfg, i, depth) ==
    Bind(cfg[i], LAMBDA w :
    Bind(Max(Ratio(depth, DEPTH_DEEP), 50), LAMBDA depthRatio :
    Bind(ShoalFactorTable[depthRatio], LAMBDA shoalFactor :
    Bind(IF i = 1 THEN S ELSE ShoalWeightOther, LAMBDA shoalWeight :
    Bind(S + Mul(shoalFactor - S, shoalWeight), LAMBDA effectiveShoal :
    Bind(Mul(w.amplitude, effectiveShoal), LAMBDA amplitude :
    Bind(Min(Mul(w.steepness, effectiveShoal), SteepnessCeiling), LAMBDA steepness :
    Bind(Ratio(TWO_PI, w.wavelength), LAMBDA k :
    Bind(Ratio(steepness, Mul(Mul(k, amplitude), Len(cfg) * S)), LAMBDA qRaw :
        [effectiveShoal |-> effectiveShoal, a |-> amplitude,
         steepness |-> steepness, qRaw |-> qRaw,
         q |-> Max(0, Min(qRaw, QCeiling))])))))))))

\* the textbook factor: steepness / (k * amplitude) without the wave count,
\* limited to 1
WaveTermsUnscaled(i, depth) ==
    Bind(WAVES[i], LAMBDA w :
    Bind(S + Mul(ShoalFactorTable[Max(Ratio(depth, DEPTH_DEEP), 50)] - S,
                 IF i = 1 THEN S ELSE ShoalWeightOther), LAMBDA effectiveShoal :
    Bind(Mul(w.amplitude, effectiveShoal), LAMBDA amplitude :
    Bind(Min(Mul(w.steepness, effectiveShoal), SteepnessCeiling), LAMBDA steepness :
        [effectiveShoal |-> effectiveShoal, a |-> amplitude, steepness |-> steepness,
         qRaw |-> Ratio(steepness, Mul(Ratio(TWO_PI, w.wavelength), amplitude)),
         q |-> Max(0, Min(Ratio(steepness, Mul(Ratio(TWO_PI, w.wavelength), amplitude)),
                          S))]))))
WaveTerms(i, depth) == ConfigTerms(WAVES, i, depth)

\* the sum of the Gerstner components on top of (x, 0, z)
RECURSIVE GerstnerSum(_, _, _, _, _)
GerstnerSum(i, x, z, time, acc) ==
    IF i > WAVE_COUNT THEN acc
    ELSE Bind(WAVES[i], LAMBDA w :
         Bind(WaveTerms(i, getDepth(x, z)), LAMBDA c :
         Bind(Phase(TWO_PI, w, x, z, time), LAMBDA f :
         Bind(Mul(c.q, c.a), LAMBDA qa :
             GerstnerSum(i + 1, x, z, time,
                 Vec(acc.x + Mul(Mul(qa, w.dirX), Cos(f)),
                     acc.y + Mul(c.a, Sin(f)),
                     acc.z + Mul(Mul(qa, w.dirZ), Cos(f))))))))

BreakDeep == 5000
\* if (breakStrength > 0.001)
BreakEpsilon == 1
BreakShallow == 2000
FoldScale == 3000
CrestEdge == 800
ThrowFactor == 1800

\* the fold without the crest factor: every point of the shallows folds
BreakingFoldNoCrest(r, x, z, time) ==
    Bind(smoothstep(BreakDeep, BreakShallow, getDepth(x, z)), LAMBDA breakStrength :
        IF breakStrength > BreakEpsilon
        THEN Bind(Mul(breakStrength, FoldScale), LAMBDA foldAngle :
             Bind(Max(r.y, 0), LAMBDA aboveWater :
                 Vec(r.x,
                     Min(r.y, 0) + Mul(aboveWater, Cos(foldAngle)),
                     r.z + Mul(aboveWater, Sin(foldAngle))
                         + Mul(Mul(Mul(breakStrength, breakStrength), aboveWater),
                               ThrowFactor))))
        ELSE r)
\* the breaking fold applied to the summed displacement r
BreakingFold(r, x, z, time) ==
    Bind(Phase(TWO_PI, WAVES[1], x, z, time), LAMBDA f0 :
    Bind(getDepth(x, z), LAMBDA depth :
    Bind(smoothstep(BreakDeep, BreakShallow, depth), LAMBDA breakStrength :
        IF breakStrength > BreakEpsilon
        THEN Bind(Sin(f0), LAMBDA sinF0 :
             Bind(smoothstep(0, CrestEdge, sinF0), LAMBDA crestFactor :
             Bind(Mul(Mul(crestFactor, crestFactor), breakStrength), LAMBDA breakAmount :
             Bind(Mul(breakAmount, FoldScale), LAMBDA foldAngle :
             Bind(Max(r.y, 0), LAMBDA aboveWater :
             Bind(Min(r.y, 0), LAMBDA belowWater :
             Bind(Mul(Mul(Mul(breakAmount, breakAmount), aboveWater), ThrowFactor),
                  LAMBDA throwForward :
                 Vec(r.x,
                     belowWater + Mul(aboveWater, Cos(foldAngle)),
                     r.z + Mul(aboveWater, Sin(foldAngle)) + throwForward))))))))
        ELSE r)))

\* gerstnerDisplace(x, z, time): the displaced surface position
gerstnerDisplace(x, z, time) ==
    BreakingFold(GerstnerSum(1, x, z, time, Vec(x, 0, z)), x, z, time)

\* const _eps = 0.2
EPS == 200

getWaveHeightAt(x, z, time) == gerstnerDisplace(x, z, time).y

getWaveSlopeAt(x, z, time) ==
    LET hRight == gerstnerDisplace(x + EPS, z, time).y
        hLeft  == gerstnerDisplace(x - EPS, z, time).y
        hFront == gerstnerDisplace(x, z + EPS, time).y
        hBack  == gerstnerDisplace(x, z - EPS, time).y
    IN  [slopeX |-> Ratio(hRight - hLeft, 2 * EPS),
         slopeZ |-> Ratio(hFront - hBack, 2 * EPS)]


\* THREE.Vector3.crossVectors(a, b)
Cross(a, b) ==
    Vec(Mul(a.y, b.z) - Mul(a.z, b.y),
        Mul(a.z, b.x) - Mul(a.x, b.z),
        Mul(a.x, b.y) - Mul(a.y, b.x))

\* THREE.Vector3.normalize(): divideScalar(length() || 1)
Normalize(v) ==
    LET len == ISqrt(v.x * v.x + v.y * v.y + v.z * v.z)
        d == IF len = 0 THEN S ELSE len
    IN  Vec(Ratio(v.x, d), Ratio(v.y, d), Ratio(v.z, d))

\* (p - n) / (2 * _eps), componentwise
CentralDiff(p, n, eps) ==
    Vec(Ratio(p.x - n.x, 2 * eps), Ratio(p.y - n.y, 2 * eps), Ratio(p.z - n.z, 2 * eps))

\* _v1.add(...) in place of _v1.set(...): the tangent of the earlier call stays in
SetV1Add(old, x, z, time) ==
    LET n == CentralDiff(gerstnerDisplace(x + EPS, z, time),
                         gerstnerDisplace(x - EPS, z, time), EPS)
    IN  Vec(old.x + n.x, old.y + n.y, old.z + n.z)

\* _v1.set(...): the x tangent overwrites all of the scratch vector
SetV1(old, x, z, time) ==
    CentralDiff(gerstnerDisplace(x + EPS, z, time),
                gerstnerDisplace(x - EPS, z, time), EPS)

\* _v2.set(...): the z tangent
SetV2(old, x, z, time) ==
    CentralDiff(gerstnerDisplace(x, z + EPS, time),
                gerstnerDisplace(x, z - EPS, time), EPS)

\* const dt = 0.01 of getWaterSurfaceAt
VelocityStep == 10

\* the WaveSurfaceSample returned by getWaterSurfaceAt, given the scratch
\* vectors as the two set() calls left them
SurfaceSample(s1, s2, x, z, time) ==
    LET center == gerstnerDisplace(x, z, time)
        future == gerstnerDisplace(x, z, time + VelocityStep)
    IN  [height |-> center.y,
         normal |-> Normalize(Cross(s2, s1)),
         velocity |-> Vec(Ratio(future.x - center.x, VelocityStep),
                          Ratio(future.y - center.y, VelocityStep),
                          Ratio(future.z - center.z, VelocityStep))]

(***************************************************************************)
(* WaveSurface.tsx: the vertex shader of GerstnerWaveMaterial              *)
(***************************************************************************)
uWaveDirX      == << 0, 150, -200 >>
uWaveDirZ      == << 1000, 990, 980 >>
uWaveSteepness == << 120, 80, 60 >>
uWaveLength    == << 25000, 15000, 8000 >>
uWaveAmplitude == << 1200, 400, 150 >>
uWaveSpeed     == << 4000, 3500, 5000 >>
uDepthDeep == 10000
uDepthShallow == 1500
uShoreAngle == 420
uShoreZCenter == 30000
uDepthGradient == 120
\* const WAVE_COUNT = 3 of WaveSurface.tsx
SHADER_WAVE_COUNT == 3
\* the literal 6.28318 of the shader, three decimals
SHADER_TWO_PI == 6283

\* GLSL clamp(x, minVal, maxVal) = min(max(x, minVal), maxVal)
GlslClamp(x, lo, hi) == Min(Max(x, lo), hi)

\* GLSL smoothstep(edge0, edge1, x)
GlslSmoothstep(edge0, edge1, x) ==
    LET t == GlslClamp(Ratio(x - edge0, edge1 - edge0), 0, S)
    IN  Mul(Mul(t, t), 3 * S - 2 * t)

shaderGetDepth(x, z) ==
    LET effectiveZ == z - Mul(x, uShoreAngle)
        rawDepth == uDepthDeep - Mul(effectiveZ - uShoreZCenter, uDepthGradient)
    IN  GlslClamp(rawDepth, uDepthShallow, uDepthDeep)

ShaderWave(i) ==
    [dirX |-> uWaveDirX[i], dirZ |-> uWaveDirZ[i], steepness |-> uWaveSteepness[i],
     wavelength |-> uWaveLength[i], amplitude |-> uWaveAmplitude[i],
     speed |-> uWaveSpeed[i]]

\* one wave's shoaled amplitude, steepness and q in the shader
\* (gerstnerWaves, the loop body up to q)
ShaderTerms(i, depth) ==
    Bind(Max(Ratio(depth, uDepthDeep), 50), LAMBDA depthRatio :
    Bind(ShoalFactorTable[depthRatio], LAMBDA shoalFactor :
    Bind(IF i = 1 THEN S ELSE 300, LAMBDA shoalWeight :
    Bind(S + Mul(shoalFactor - S, shoalWeight), LAMBDA effectiveShoal :
    Bind(Mul(uWaveAmplitude[i], effectiveShoal), LAMBDA amplitude :
    Bind(Min(Mul(uWaveSteepness[i], effectiveShoal), 400), LAMBDA steepness :
    Bind(Ratio(SHADER_TWO_PI, uWaveLength[i]), LAMBDA k :
        [effectiveShoal |-> effectiveShoal, a |-> amplitude, steepness |-> steepness,
         q |-> GlslClamp(Ratio(steepness, Mul(Mul(k, amplitude), SHADER_WAVE_COUNT * S)),
                         0, 500)])))))))

RECURSIVE ShaderSum(_, _, _, _)
ShaderSum(i, pos, time, result) ==
    IF i > SHADER_WAVE_COUNT THEN result
    ELSE Bind(ShaderTerms(i, shaderGetDepth(pos.x, pos.z)), LAMBDA c :
         Bind(Phase(SHADER_TWO_PI, ShaderWave(i), pos.x, pos.z, time), LAMBDA f :
             ShaderSum(i + 1, pos, time,
                 Vec(result.x + Mul(Mul(Mul(c.q, c.a), uWaveDirX[i]), Cos(f)),
                     result.y + Mul(c.a, Sin(f)),
                     result.z + Mul(Mul(Mul(c.q, c.a), uWaveDirZ[i]), Cos(f))))))

\* the breaking block of gerstnerWaves; foldSign is +1 (the lip curls toward +Z)
ShaderFold(result, pos, time, foldSign) ==
    LET f0 == Phase(SHADER_TWO_PI, ShaderWave(1), pos.x, pos.z, time)
        depth == shaderGetDepth(pos.x, pos.z)
        breakStrength == GlslSmoothstep(5000, 2000, depth)
    IN  IF breakStrength > 1
        THEN LET sinF0 == Sin(f0)
                 crestFactor == GlslSmoothstep(0, 800, sinF0)
                 breakAmount == Mul(Mul(crestFactor, crestFactor), breakStrength)
                 foldAngle == Mul(breakAmount, 3000)
                 aboveWater == Max(result.y, 0)
                 belowWater == Min(result.y, 0)
                 throwForward == Mul(Mul(Mul(breakAmount, breakAmount), aboveWater), 1800)
             IN  Vec(result.x,
                     belowWater + Mul(aboveWater, Cos(foldAngle)),
                     result.z + foldSign * (Mul(aboveWater, Sin(foldAngle)) + throwForward))
        ELSE result

\* vec3 gerstnerWaves(vec3 pos, float time)
gerstnerWaves(pos, time) ==
    ShaderFold(ShaderSum(1, pos, time, pos), pos, time, 1)

\* float eps = 0.2 of main()
SHADER_EPS == 200

\* main(): the displaced vertex and the normal before normalMatrix
VertexMain(pos, time) ==
    LET eps == SHADER_EPS
        displaced == gerstnerWaves(pos, time)
        pX == gerstnerWaves(Vec(pos.x + eps, pos.y, pos.z), time)
        nX == gerstnerWaves(Vec(pos.x - eps, pos.y, pos.z), time)
        pZ == gerstnerWaves(Vec(pos.x, pos.y, pos.z + eps), time)
        nZ == gerstnerWaves(Vec(pos.x, pos.y, pos.z - eps), time)
        tangentX == CentralDiff(pX, nX, eps)
        tangentZ == CentralDiff(pZ, nZ, eps)
    IN  [displaced |-> displaced,
         normal |-> Normalize(Cross(tangentZ, tangentX)),
         vDepth |-> shaderGetDepth(pos.x, pos.z)]


(***************************************************************************)
(* App.tsx: the rider stepper (Player.useFrame)                            *)
(***************************************************************************)
GRAVITY == 9800
START_X == 5000
START_Z == 20000
\* -Math.PI / 2
START_YAW == -1571

\* the value of a computation that is not a number (0/0, NaN * 0, x + NaN):
\* an integer no fixed-point quantity of the model takes
NaN == -(2 ^ 30)
IsNaN(v) == v = NaN

\* the stateRef.current object literal of the reset effect (and of useRef)
InitialState ==
    [pitch |-> 0, roll |-> 0, yaw |-> START_YAW, cameraYaw |-> START_YAW,
     height |-> 400, vY |-> 0, speed |-> 12000, prevPitch |-> 0, prevRoll |-> 0]

\* the five input flags the callback reads from keys
NoKeys == [up |-> FALSE, down |-> FALSE, left |-> FALSE, right |-> FALSE, shift |-> FALSE]
KeySets == [up : BOOLEAN, down : BOOLEAN, left : BOOLEAN, right : BOOLEAN, shift : BOOLEAN]
\* the sets of keys a run holds: nothing, W, S, Shift+A, D
HeldKeys ==
    { NoKeys, [NoKeys EXCEPT !.up = TRUE], [NoKeys EXCEPT !.down = TRUE],
      [NoKeys EXCEPT !.left = TRUE, !.shift = TRUE], [NoKeys EXCEPT !.right = TRUE] }

\* the snap override taken whenever the modifier is held, roll key or not
IntentSnapAlways(k) ==
    [targetRoll |-> IF k.right THEN -550 ELSE IF k.left THEN 550 ELSE 0,
     targetPitch |-> IF k.shift THEN 250
                     ELSE IF k.down THEN 300 ELSE IF k.up THEN -200 ELSE 50,
     isSnapping |-> k.shift]
\* 1. Read Input: the targets and the snap flag
Intent(k) ==
    LET roll == IF k.right THEN -550 ELSE IF k.left THEN 550 ELSE 0
        pitch0 == IF k.down THEN 300 ELSE IF k.up THEN -200 ELSE 50
    IN  [targetRoll |-> roll,
         targetPitch |-> IF k.shift /\ Abs(roll) > 0 THEN 250 ELSE pitch0,
         isSnapping |-> k.shift]

\* the timestep without the cap: dt = delta
FrameDtUncapped(delta) == delta
\* const dt = Math.min(delta, 0.1)
FrameDt(delta) == Min(delta, 100)

\* Math.abs(now - prev) / dt
Rate(now, prev, dt) ==
    IF dt = 0 THEN NaN ELSE Ratio(Abs(now - prev), dt)

\* speed after the integration line, before the NaN test and the clamp
SpeedRaw(speed, thrust, pumpThrust, drag, dt) ==
    IF IsNaN(pumpThrust) THEN NaN
    ELSE speed + Mul(thrust + pumpThrust - drag, dt)

\* the NaN reset without the clamp after it
SpeedResetOnly(raw) == IF IsNaN(raw) THEN 0 ELSE Clamp(raw, 1000, 25000)
\* the speed lines without the clamp
SpeedUnclamped(raw) == IF IsNaN(raw) THEN 0 ELSE raw
\* if (isNaN(s.speed)) s.speed = 0; s.speed = clamp(s.speed, 1.0, 25.0)
SpeedFinish(raw) == Clamp(IF IsNaN(raw) THEN 0 ELSE raw, 1000, 25000)

\* the crash test with the touchdown at the water line, without the leeway
VerdictAtBoard(height) ==
    IF height <= 0 THEN "Touchdown"
    ELSE IF height >= 1300 THEN "Breached"
    ELSE "None"
\* the crash test with the breach limit of the old 0.9 m mast
VerdictOldMast(height) ==
    IF height <= -50 THEN "Touchdown"
    ELSE IF height >= 1000 THEN "Breached"
    ELSE "None"
\* 4. Crash Detection
Verdict(height) ==
    IF height <= -50 THEN "Touchdown"
    ELSE IF height >= 1300 THEN "Breached"
    ELSE "None"

\* the crash branch without a reason
ReasonBlank(verdict) == ""
Reason(verdict) ==
    IF verdict = "Touchdown" THEN "TOUCHDOWN! Board dug into the water."
    ELSE IF verdict = "Breached" THEN "BREACHED! Foil wing came out of the water."
    ELSE ""

\* the smoothing without the interpolation: the targets are accumulated
SmoothAdditive(st, in, dt) ==
    Bind(st.pitch + Mul(in.targetPitch, 5 * dt), LAMBDA pitch :
    Bind(st.roll + Mul(in.targetRoll, 6 * dt), LAMBDA roll :
        [prevPitch |-> st.pitch, prevRoll |-> st.roll, pitch |-> pitch, roll |-> roll,
         pitchRate |-> Rate(pitch, st.pitch, dt), rollRate |-> Rate(roll, st.roll, dt)]))
\* 1. smoothing: prevPitch / prevRoll, the two lerps and the two rates
Smooth(st, in, dt) ==
    Bind(Lerp(st.pitch, in.targetPitch, 5 * dt), LAMBDA pitch :
    Bind(Lerp(st.roll, in.targetRoll, 6 * dt), LAMBDA roll :
        [prevPitch |-> st.pitch, prevRoll |-> st.roll, pitch |-> pitch, roll |-> roll,
         pitchRate |-> Rate(pitch, st.pitch, dt), rollRate |-> Rate(roll, st.roll, dt)]))

\* the ratio without Math.max(0, ...): downhill counts as negative uphill
UphillRatioSigned(slopeInDirection, slopeMag) ==
    IF slopeMag > 1 THEN Ratio(slopeInDirection, slopeMag) ELSE 0
\* slopeMag > 0.001 ? Math.max(0, slopeInDirection / slopeMag) : 0
UphillRatio(slopeInDirection, slopeMag) ==
    IF slopeMag > 1 THEN Max(0, Ratio(slopeInDirection, slopeMag)) ELSE 0

\* the slope thrust with the sign dropped: uphill pushes, downhill brakes
SlopeThrustUphill(slopeInDirection) == Mul(Mul(slopeInDirection, GRAVITY), 350)
\* const waveSlopeThrust = -slopeInDirection * GRAVITY * 0.35
SlopeThrust(slopeInDirection) == Mul(Mul(-slopeInDirection, GRAVITY), 350)

\* components/Player.tsx: forwardX = Math.sin(s.yaw), forwardZ = -Math.cos(s.yaw),
\* waveSlopeThrust = -slopeInDirection * gravity * 0.8
PlayerSlopeThrust(slope, yaw) ==
    Bind(Mul(slope.slopeX, Sin(yaw)) + Mul(slope.slopeZ, -Cos(yaw)),
         LAMBDA slopeInDirection :
        [slopeInDirection |-> slopeInDirection,
         waveSlopeThrust |-> Mul(Mul(-slopeInDirection, 9800), 800)])

\* 2. the thrust the wave gives: slope thrust and foil catch, with slopeMag
WaveThrust(slope, yaw) ==
    Bind(Mul(slope.slopeX, -Sin(yaw)) + Mul(slope.slopeZ, -Cos(yaw)),
         LAMBDA slopeInDirection :
    Bind(ISqrt(slope.slopeX * slope.slopeX + slope.slopeZ * slope.slopeZ),
         LAMBDA slopeMag :
    Bind(UphillRatio(slopeInDirection, slopeMag), LAMBDA uphillRatio :
        [slopeMag |-> slopeMag,
         slopeInDirection |-> slopeInDirection,
         uphillRatio |-> uphillRatio,
         waveSlopeThrust |-> SlopeThrust(slopeInDirection),
         foilCatchThrust |-> Mul(Mul(slopeMag, 1500), S - Mul(500, uphillRatio))])))

\* const pumpThrust = (pitchRate * 3.5) + (rollRate * 0.3)
PumpThrust(pitchRate, rollRate) ==
    IF IsNaN(pitchRate) \/ IsNaN(rollRate) THEN NaN
    ELSE Mul(pitchRate, 3500) + Mul(rollRate, 300)

\* the snap penalty charged whenever the modifier is held, whatever the roll
SnapDragAnyRoll(speed, roll, isSnapping) ==
    IF isSnapping THEN Mul(speed, 2500) ELSE 0
\* if (isSnapping && Math.abs(s.roll) > 0.1) drag += s.speed * 2.5
SnapDrag(speed, roll, isSnapping) ==
    IF isSnapping /\ Abs(roll) > 100 THEN Mul(speed, 2500) ELSE 0

\* base drag + stall drag + carve drag, and the snap drag
Drag(speed, pitch, roll, isSnapping) ==
    Mul(speed, 80) + Mul(Mul(Max(0, pitch), speed), 1200)
        + Mul(Mul(Abs(roll), speed), 200)
        + SnapDrag(speed, roll, isSnapping)

\* the ground effect with the lower band ending at the board (height < 0)
GroundEffectAtBoard(height) ==
    IF height > 1000 THEN -Mul(height - 1000, 10000)
    ELSE IF height < 0 THEN Mul(300 - height, 15000) ELSE 0
\* let groundEffect = 0; the two ifs on s.height (the second wins)
GroundEffect(height) ==
    IF height > 1000 THEN -Mul(height - 1000, 10000)
    ELSE IF height < 300 THEN Mul(300 - height, 15000) ELSE 0

\* 3. totalLift: base lift, pitch lift, ground effect and wave face lift
TotalLift(speed, pitch, height, slopeMag) ==
    Mul(Quot(speed, 10), GRAVITY) + Mul(Mul(pitch, speed), 3000)
        + GroundEffect(height) + Mul(Mul(slopeMag, GRAVITY), 200)

\* s.vY += (totalLift - GRAVITY) * dt; s.vY *= 0.85
VerticalSpeed(vY, totalLift, dt) == Mul(vY + Mul(totalLift - GRAVITY, dt), 850)

\* stages 1 to 4 of the callback: input, smoothing, speed, vertical physics,
\* crash detection.  st is stateRef.current, p the group position, now the
\* clock.elapsedTime of this frame.
StepToCrash(st, p, k, dt, now) ==
    Bind(Intent(k), LAMBDA in :
    Bind(Smooth(st, in, dt), LAMBDA sm :
    Bind(WaveThrust(getWaveSlopeAt(p.x, p.z, now), st.yaw), LAMBDA th :
    Bind(PumpThrust(sm.pitchRate, sm.rollRate), LAMBDA pumpThrust :
    Bind(Drag(st.speed, sm.pitch, sm.roll, in.isSnapping), LAMBDA drag :
    Bind(SpeedRaw(st.speed, th.waveSlopeThrust + th.foilCatchThrust, pumpThrust,
                  drag, dt),
         LAMBDA speedRaw :
    Bind(SpeedFinish(speedRaw), LAMBDA speed :
    Bind(TotalLift(speed, sm.pitch, st.height, th.slopeMag), LAMBDA totalLift :
    Bind(VerticalSpeed(st.vY, totalLift, dt), LAMBDA vY :
    Bind(st.height + Mul(vY, dt), LAMBDA height :
        [s |-> [st EXCEPT !.prevPitch = sm.prevPitch, !.prevRoll = sm.prevRoll,
                          !.pitch = sm.pitch, !.roll = sm.roll, !.speed = speed,
                          !.vY = vY, !.height = height],
         isSnapping |-> in.isSnapping,
         pitchRate |-> sm.pitchRate,
         rollRate |-> sm.rollRate,
         thrust |-> th,
         pumpThrust |-> pumpThrust,
         drag |-> drag,
         speedRaw |-> speedRaw,
         groundEffect |-> GroundEffect(st.height),
         totalLift |-> totalLift,
         verdict |-> Verdict(height)]))))))))))

\* stages 5 and 6 with the position advanced along the yaw from before the turn
StepMoveOldYaw(st, p, isSnapping, dt, now) ==
    Bind(IF isSnapping THEN 2500 ELSE S, LAMBDA snapMultiplier :
    Bind(IF isSnapping THEN S ELSE Ratio(10000, Max(st.speed, 10000)), LAMBDA speedFactor :
    Bind(st.yaw + Mul(Mul(Mul(Mul(st.roll, dt), 5500), snapMultiplier), speedFactor),
         LAMBDA yaw :
    Bind(p.x + Mul(Mul(-Sin(st.yaw), st.speed), dt), LAMBDA px :
    Bind(p.z + Mul(Mul(-Cos(st.yaw), st.speed), dt), LAMBDA pz :
        [s |-> [st EXCEPT !.yaw = yaw],
         pos |-> Vec(px, getWaveHeightAt(px, pz, now) + st.height, pz),
         rot |-> Vec(st.pitch, yaw, st.roll)])))))

\* stages 5 and 6: turning, movement and rotation, after a tick that did not crash
StepMove(st, p, isSnapping, dt, now) ==
    Bind(IF isSnapping THEN 2500 ELSE S, LAMBDA snapMultiplier :
    Bind(IF isSnapping THEN S ELSE Ratio(10000, Max(st.speed, 10000)), LAMBDA speedFactor :
    Bind(st.yaw + Mul(Mul(Mul(Mul(st.roll, dt), 5500), snapMultiplier), speedFactor),
         LAMBDA yaw :
    Bind(p.x + Mul(Mul(-Sin(yaw), st.speed), dt), LAMBDA px :
    Bind(p.z + Mul(Mul(-Cos(yaw), st.speed), dt), LAMBDA pz :
    Bind(getWaveHeightAt(px, pz, now), LAMBDA waveY :
        [s |-> [st EXCEPT !.yaw = yaw],
         pos |-> Vec(px, waveY + st.height, pz),
         rot |-> Vec(st.pitch, yaw, st.roll)]))))))

\* the wave direction the camera offset is built from
WAVE_DIR_X == 0
WAVE_DIR_Z == 1000
\* cameraOffset: camWave = 10, camCrest = 5, camUp = 3
CameraOffset ==
    Vec(Mul(10000, WAVE_DIR_X) + Mul(5000, WAVE_DIR_Z), 3000,
        Mul(10000, WAVE_DIR_Z) - Mul(5000, WAVE_DIR_X))
\* camera.position.lerp(targetCameraPos, dt * 3); camera.lookAt(lookAtTarget)
FollowCamera(cam, p, dt) ==
    [position |-> Vec(cam.position.x + Mul(p.x + CameraOffset.x - cam.position.x, 3 * dt),
                      cam.position.y + Mul(p.y + CameraOffset.y - cam.position.y, 3 * dt),
                      cam.position.z + Mul(p.z + CameraOffset.z - cam.position.z, 3 * dt)),
     lookAt |-> Vec(p.x, p.y + 500, p.z)]
\* Number.prototype.toFixed to a multiple of step
ToFixed(v, step) == Sign(v) * ((Abs(v) + step \div 2) \div step) * step
\* the innerText of hud-speed and hud-height
HudText(st) == [speed |-> ToFixed(st.speed, 100), height |-> ToFixed(st.height, 10)]
\* the HUD as GameScene mounts it
HudMounted == [speed |-> 12000, height |-> 400]

\* the crash branch without its return: stages 5 and 6 run on the crash tick too
CrashFallsThrough(st, p, r, isSnapping, dt, now) == StepMove(st, p, isSnapping, dt, now)
\* if (crashed) { ...; return; }: RiderState as stage 3 left it, the group untouched
CrashReturn(st, p, r, isSnapping, dt, now) == [s |-> st, pos |-> p, rot |-> r]

\* the position prop of the group, which is taken at time 0 whatever the clock reads
StartPosAtMount(t) == Vec(START_X, getWaveHeightAt(START_X, START_Z, 0) + 400, START_Z)
\* the group position and rotation the reset effect sets, t = clockRef.current
StartPos(t) == Vec(START_X, getWaveHeightAt(START_X, START_Z, t) + 400, START_Z)
StartRot == Vec(0, START_YAW, 0)

\* THREE.Vector3.applyAxisAngle((0, 1, 0), angle): the quaternion
\* (0, sin(angle / 2), 0, cos(angle / 2)) applied to v
ApplyAxisAngleY(v, angle) ==
    Bind(Sin(Quot(angle, 2)), LAMBDA qy :
    Bind(Cos(Quot(angle, 2)), LAMBDA qw :
    Bind(2 * Mul(qy, v.z), LAMBDA tx :
    Bind(-2 * Mul(qy, v.x), LAMBDA tz :
        Vec(v.x + Mul(qw, tx) + Mul(qy, tz), v.y, v.z + Mul(qw, tz) - Mul(qy, tx))))))

\* a vector of the group's local frame in the world frame after
\* rotation.set(e.x, e.y, e.z, 'YXZ') (Matrix4.makeRotationFromEuler)
EulerYXZ(v, e) ==
    Bind(Cos(e.x), LAMBDA a : Bind(Sin(e.x), LAMBDA b :
    Bind(Cos(e.y), LAMBDA c : Bind(Sin(e.y), LAMBDA d :
    Bind(Cos(e.z), LAMBDA ce : Bind(Sin(e.z), LAMBDA f :
        Vec(Mul(Mul(c, ce) + Mul(Mul(d, f), b), v.x)
                + Mul(Mul(Mul(d, ce), b) - Mul(c, f), v.y) + Mul(Mul(a, d), v.z),
            Mul(Mul(a, f), v.x) + Mul(Mul(a, ce), v.y) - Mul(b, v.z),
            Mul(Mul(Mul(c, f), b) - Mul(d, ce), v.x)
                + Mul(Mul(d, f) + Mul(Mul(c, ce), b), v.y) + Mul(Mul(a, c), v.z))))))))

\* the nose of the board in the group's frame: the front wing sits toward -Z
Nose == Vec(0, 0, -S)

\* App.tsx: the direction the slope is projected on, the direction the position
\* advances along, and the direction the nose of the displayed board points
AppForward(yaw, pitch, roll) ==
    [slope |-> Vec(-Sin(yaw), 0, -Cos(yaw)),
     move |-> ApplyAxisAngleY(Vec(0, 0, -S), yaw),
     facing |-> EulerYXZ(Nose, Vec(pitch, yaw, roll))]

\* components/Player.tsx: the same three directions
ComponentForward(yaw, pitch, roll) ==
    [slope |-> Vec(Sin(yaw), 0, -Cos(yaw)),
     move |-> Vec(Sin(yaw), 0, -Cos(yaw)),
     facing |-> EulerYXZ(Nose, Vec(pitch, yaw, roll))]

\* const START_YAW = Math.PI / 2 of components/Player.tsx
COMPONENT_START_YAW == 1571

(***************************************************************************)
(* App.tsx: the spray particles (SprayParticles.useFrame)                  *)
(***************************************************************************)
\* The pool has SPRAY_POOL_SIZE = 100 slots in the program.  Every loop of the
\* callback runs over SPRAY_POOL_SIZE and nothing else depends on its value,
\* so the model keeps a pool of PoolSize slots, small enough to fill.
PoolSize == 4
Slots == 0 .. (PoolSize - 1)

\* the iterations the model follows one emission loop for
MaxLoop == 12

\* A slot of the pool: lives[i], maxLives[i], and the vertical position and
\* velocity positions[i*3+1], velocities[i*3+1], the only coordinates that the
\* callback reads back to decide about a life.
\* useMemo: zero-filled Float32Arrays, nextSlot and the four accumulators 0
PoolInit ==
    [slots |-> [i \in Slots |-> [life |-> 0, maxLife |-> 0, y |-> 0, vy |-> 0]],
     nextSlot |-> 0,
     accRail |-> 0, accMast |-> 0, accFoil |-> 0, accSnap |-> 0]

\* the update loop on one slot: a dead slot is skipped, a life that runs out
\* keeps its value <= 0, a particle below y = -0.5 gets life 0
UpdateSlot(p, dt) ==
    IF p.life <= 0 THEN p
    ELSE Bind(p.life - dt, LAMBDA life :
         IF life <= 0 THEN [p EXCEPT !.life = life]
         ELSE Bind(Mul(p.vy - Mul(9800, dt), S - dt), LAMBDA vy :
              Bind(p.y + Mul(vy, dt), LAMBDA y :
                  [p EXCEPT !.life = IF y < -500 THEN 0 ELSE life,
                            !.vy = vy, !.y = y])))

\* findSlot: the ring scan from nextSlot for a slot with lives[idx] <= 0
RECURSIVE FindSlotFrom(_, _)
FindSlotFrom(pl, j) ==
    IF j >= PoolSize THEN -1
    ELSE Bind((pl.nextSlot + j) % PoolSize, LAMBDA idx :
         IF pl.slots[idx].life <= 0 THEN idx ELSE FindSlotFrom(pl, j + 1))

findSlotNoScan(pl) == pl.nextSlot
findSlot(pl) == FindSlotFrom(pl, 0)

\* spawn(lx, ly, lz, vx, vy, vz, size, life) with the group at position pos and
\* rotation rot: the slot found is overwritten and nextSlot moves behind it; with
\* no slot found nothing is written.  The event records what the call met.
spawn(pl, scene, part) ==
    Bind(findSlot(pl), LAMBDA idx :
        IF idx < 0
        THEN [pool |-> pl,
              event |-> [idx |-> idx, lifeBefore |-> 0,
                         full |-> \A i \in Slots : pl.slots[i].life > 0,
                         before |-> pl.slots, after |-> pl.slots,
                         nextSlot |-> pl.nextSlot]]
        ELSE Bind([pl EXCEPT !.slots[idx] =
                                 [life |-> part.life, maxLife |-> part.life,
                                  y |-> scene.pos.y + EulerYXZ(part.l, scene.rot).y,
                                  vy |-> EulerYXZ(part.v, scene.rot).y],
                             !.nextSlot = (idx + 1) % PoolSize], LAMBDA out :
             [pool |-> out,
              event |-> [idx |-> idx, lifeBefore |-> pl.slots[idx].life,
                         full |-> \A i \in Slots : pl.slots[i].life > 0,
                         before |-> pl.slots, after |-> out.slots,
                         nextSlot |-> out.nextSlot]]))

\* `p.acc -= 1` after each spawn call of an emission loop
AccAfterSpawnHit(acc, idx) == IF idx < 0 THEN acc ELSE acc - S
AccAfterSpawn(acc, idx) == acc - S

\* while (p[acc] >= 1) { spawn(...); p[acc] -= 1; } on the accumulator named
\* acc; st carries the pool, the spawn events and the loop records of the frame
RECURSIVE EmitLoop(_, _, _, _, _)
EmitLoop(st, acc, scene, part, n) ==
    IF st.pool[acc] < S \/ n >= MaxLoop
    THEN [st EXCEPT !.loops = Append(@, [emitter |-> acc, active |-> TRUE,
                                         iterations |-> n,
                                         done |-> st.pool[acc] < S])]
    ELSE Bind(spawn(st.pool, scene, part), LAMBDA r :
         EmitLoop([st EXCEPT !.pool = [r.pool EXCEPT
                                          ![acc] = AccAfterSpawn(r.pool[acc], r.event.idx)],
                             !.events = Append(@, r.event)],
                  acc, scene, part, n + 1))

\* an emitter on the accumulator acc: with its condition it adds inc and runs
\* the loop, without it the accumulator is reset
Emitter(st, acc, cond, inc, scene, part) ==
    IF cond
    THEN EmitLoop([st EXCEPT !.pool[acc] = @ + inc], acc, scene, part, 0)
    ELSE [st EXCEPT !.pool[acc] = 0,
                    !.loops = Append(@, [emitter |-> acc, active |-> FALSE,
                                         iterations |-> 0, done |-> TRUE])]

\* the four emitters; u is the value of Math.random() in the frame
RailSpray(st, scene, dt, u) ==
    Bind(Abs(scene.ss.roll), LAMBDA absRoll :
    Bind(Sign(scene.ss.roll), LAMBDA railSide :
    Bind(Mul(scene.ss.speed, 150), LAMBDA spd :
        Emitter(st, "accRail",
                absRoll > 150 /\ scene.ss.height < 500 /\ scene.ss.speed > 4000,
                Mul(Mul(Mul(absRoll, scene.ss.speed), 3000), dt), scene,
                [l |-> Vec(-railSide * 250, -20, 100),
                 v |-> Vec(-railSide * Mul(1500 + Mul(u, 500), spd),
                           Mul(1000 + Mul(u, 500), spd),
                           Mul(300 + Mul(u, 200), spd)),
                 life |-> 600 + Mul(u, 400)]))))

MastSpray(st, scene, dt, u) ==
    Bind(Abs(scene.ss.roll), LAMBDA absRoll :
    Bind(Sign(scene.ss.roll), LAMBDA railSide :
    Bind(Mul(scene.ss.speed, 80), LAMBDA spd :
        Emitter(st, "accMast",
                ~IsNaN(scene.ss.rollRate) /\ scene.ss.rollRate > 1500
                    /\ absRoll > 300 /\ scene.ss.speed > 8000,
                Mul(6000, dt), scene,
                [l |-> Vec(0, -600, -200),
                 v |-> Vec(-railSide * Mul(800 + Mul(u, 300), spd),
                           Mul(300 + Mul(u, 300), spd),
                           Mul(-500 + Mul(u, 1000), spd)),
                 life |-> 400 + Mul(u, 300)]))))

FoilSpray(st, scene, dt, u) ==
    Bind(Abs(scene.ss.roll), LAMBDA absRoll :
    Bind(Sign(scene.ss.roll), LAMBDA railSide :
    Bind(scene.ss.height - 1200 + Mul(Sin(absRoll), 400), LAMBDA foilTipHeight :
        Emitter(st, "accFoil",
                foilTipHeight > -300 /\ absRoll > 350 /\ scene.ss.speed > 6000,
                Mul(4000, dt), scene,
                [l |-> Vec(railSide * 400, -1200, -200),
                 v |-> Vec(railSide * Mul(500 + Mul(u, 300), 500),
                           Mul(2000 + Mul(u, 1000), 500),
                           Mul(Mul(u, 500) - 250, 500)),
                 life |-> 300 + Mul(u, 200)]))))

SnapSpray(st, scene, dt, u) ==
    Bind(Abs(scene.ss.roll), LAMBDA absRoll :
    Bind(Sign(scene.ss.roll), LAMBDA railSide :
    Bind(Mul(scene.ss.speed, 120), LAMBDA spd :
        Emitter(st, "accSnap",
                scene.ss.isSnapping /\ absRoll > 200 /\ scene.ss.speed > 3000,
                Mul(35000, dt), scene,
                [l |-> Vec(-railSide * 250, -20, 100),
                 v |-> Vec(-railSide * Mul(1000 + Mul(u, 800), spd),
                           Mul(500 + Mul(u, 300), spd),
                           Mul(800 + Mul(u, 500), spd)),
                 life |-> 400 + Mul(u, 400)]))))

\* the frame callback behind its guard: const dt = Math.min(delta, 0.1), the
\* update loop, then the emitters in the order rail, mast, foil, snap
SprayStep(pl, scene, delta, u) ==
    Bind(Min(delta, 100), LAMBDA dt :
    Bind([pl EXCEPT !.slots = [i \in Slots |-> UpdateSlot(pl.slots[i], dt)]],
         LAMBDA updated :
    Bind(RailSpray([pool |-> updated, events |-> <<>>, loops |-> <<>>], scene, dt, u),
         LAMBDA rail :
    Bind(MastSpray(rail, scene, dt, u), LAMBDA mast :
    Bind(FoilSpray(mast, scene, dt, u), LAMBDA foil :
    Bind(SnapSpray(foil, scene, dt, u), LAMBDA snap :
        [pool |-> snap.pool,
         report |-> [kind |-> "ran", pre |-> pl, dt |-> dt, scene |-> scene,
                     updated |-> updated, events |-> snap.events,
                     loops |-> snap.loops]]))))))

(***************************************************************************)
(* State                                                                   *)
(***************************************************************************)
VARIABLES
    clock,         \* state.clock.elapsedTime of the canvas, in ms
    uTime,         \* the shader uniform uTime
    v1, v2,        \* the module-level scratch vectors _v1, _v2
    sample,        \* the last getWaterSurfaceAt call: arguments and result
    earlier,       \* some call before it
    vtx,           \* the last vertex the shader displaced
    depthLast,     \* the last getDepthAt call: arguments and result
    depthPrev,     \* the call before it
    gameState,     \* GameScene: useState 'start' | 'playing' | 'gameover'
    crashReason,   \* GameScene: useState('')
    cbGameState,   \* the gameState prop of the Player render whose frame callback is installed
    effectPending, \* the [gameState] effect of that render has not run yet
    keys,          \* Player: the input flags the installed callback reads
    s,             \* stateRef.current
    pos, rot,      \* groupRef.current.position / rotation
    clockRef,      \* clockRef.current
    ss,            \* sprayStateRef.current
    camera,        \* state.camera: position and the point it looks at
    hud,           \* the text of hud-speed / hud-height, None while the HUD is not mounted
    last,          \* what the last frame callback or reset effect did
    sessionTicks,  \* integrating ticks since the host last asked for start/respawn
    ticks, hitches, keyChanges,   \* how much of the bounded environment is used
    runA, runB,    \* two independent runs of the stepper (determinism)
    config,        \* the WAVES array the WavePhysicsBridge module was loaded with
    loadError,     \* evaluating the module threw
    cfgQuery,      \* the last displacement query on config: point and per-wave terms
    intent,        \* the last resolution of the input flags: flags and targets
    intentPrev,    \* the resolution before it
    thrustCall,    \* the last evaluation of the wave thrust: slope, yaw and result
    forwardCall,   \* the last evaluation of the three forward directions of a pose
    foldCall,      \* the last gerstnerDisplace call: point, time, plain sum and result
    pool,          \* SprayParticles: the particle pool (slots, nextSlot, accumulators)
    sprayLast,     \* what the last frame callback of SprayParticles did
    sprayFrames    \* frames of SprayParticles so far

surfVars == <<uTime, v1, v2, sample, earlier, vtx>>
depthVars == <<depthLast, depthPrev>>
reactVars == <<gameState, crashReason, cbGameState, effectPending, keys>>
riderVars == <<s, pos, rot, clockRef, ss, camera, hud>>
histVars == <<last, sessionTicks, ticks, hitches, keyChanges>>
gameVars == <<reactVars, riderVars, histVars>>
detVars == <<runA, runB>>
cfgVars == <<config, loadError, cfgQuery>>
intentVars == <<intent, intentPrev>>
probeVars == <<thrustCall, forwardCall, foldCall>>
sprayVars == <<pool, sprayLast, sprayFrames>>
unitVars == <<cfgVars, intentVars, probeVars, sprayVars>>
vars == <<clock, surfVars, depthVars, gameVars, detVars, unitVars>>

None == [none |-> TRUE]

SurfInit ==
    /\ uTime = 0
    /\ v1 = ZeroVec
    /\ v2 = ZeroVec
    /\ sample = None
    /\ earlier = None
    /\ vtx = None
DepthInit ==
    /\ depthLast = None
    /\ depthPrev = None
\* GameScene and Player as mounted: useState / useRef initial values and the
\* position prop of the group
GameInit ==
    /\ gameState = "start"
    /\ crashReason = ""
    /\ cbGameState = "start"
    /\ effectPending = FALSE
    /\ keys = NoKeys
    /\ s = InitialState
    /\ pos = StartPos(0)
    /\ rot = ZeroVec
    /\ clockRef = 0
    /\ ss = [roll |-> 0, height |-> 400, speed |-> 12000, rollRate |-> 0,
             isSnapping |-> FALSE, isPlaying |-> FALSE]
    /\ camera = [position |-> Vec(0, 5000, 10000), lookAt |-> ZeroVec]
    /\ hud = None
    /\ last = [kind |-> "none"]
    /\ sessionTicks = 0
    /\ ticks = 0
    /\ hitches = 0
    /\ keyChanges = 0
DetInit ==
    /\ runA = None
    /\ runB = None
\* the bridge module as shipped, loaded; no input resolved yet
UnitInit ==
    /\ config = WAVES
    /\ loadError = FALSE
    /\ cfgQuery = None
    /\ intent = None
    /\ intentPrev = None
    /\ thrustCall = None
    /\ forwardCall = None
    /\ foldCall = None
    /\ pool = PoolInit
    /\ sprayLast = None
    /\ sprayFrames = 0

(***************************************************************************)
(* Depth queries (getDepthAt is the public depth query for gameplay)       *)
(***************************************************************************)
DepthXs == { -60000, 0, 5000, 20000, 200000 }
DepthZs == { -200000, 0, 29000, 30000, 31000, 60000, 100000, 101000, 200000 }

QueryDepth(x, z) ==
    /\ depthPrev' = depthLast
    /\ depthLast' = [x |-> x, z |-> z, effectiveZ |-> EffectiveZ(x, z),
                     depth |-> getDepthAt(x, z)]
    /\ UNCHANGED <<unitVars, clock, surfVars, gameVars, detVars>>

DepthNext == \E x \in DepthXs, z \in DepthZs : QueryDepth(x, z)

DepthSpecInit == clock = 0 /\ SurfInit /\ DepthInit /\ GameInit /\ DetInit /\ UnitInit
SpecDepth == DepthSpecInit /\ [][DepthNext]_vars

(***************************************************************************)
(* The wave test scene: WaveSurface and the CPU samplers on one clock      *)
(***************************************************************************)
\* the clock values a run may reach, and the frame deltas it is fed
MaxClock == 350
FrameDeltas == { 0, 100, 250 }

\* the points the CPU samples (TestSpheres of IsolatedWaveScene)
SpherePoints == { <<0, 35000>>, <<-20000, 20000>>, <<20000, 10000>> }
\* vertices of the stationary mesh
Vertices == { <<0, 35000>>, <<0, 80000>>, <<5000, 20000>>, <<20000, 75000>>,
              <<-20000, 20000>>, <<0, -20000>>, <<-60000, 90000>>, <<100000, 100000>> }

\* WaveSurface.useFrame with a stale time: uTime keeps the time of the frame before
FrameTimeStale(now, before) == before
\* WaveSurface.useFrame: materialRef.current.uTime = state.clock.elapsedTime
FrameTime(now, before) == now

\* one frame of the canvas: the clock advances and WaveSurface uploads it;
\* the calls of the frame before are no longer compared
WaveFrame(delta) ==
    /\ clock + delta <= MaxClock
    /\ clock' = clock + delta
    /\ uTime' = FrameTime(clock', clock)
    /\ earlier' = IF delta = 0 THEN earlier ELSE None
    /\ UNCHANGED <<unitVars, v1, v2, sample, vtx, depthVars, gameVars, detVars>>

\* getWaterSurfaceAt(x, z, clock) called by a sampler in this frame; the
\* call before it is remembered or forgotten
SurfaceQuery(x, z) ==
    \E n1 \in {SetV1(v1, x, z, clock)}, n2 \in {SetV2(v2, x, z, clock)} :
        /\ v1' = n1
        /\ v2' = n2
        /\ sample' = [x |-> x, z |-> z, time |-> clock,
                      dirty |-> (v1 # n1 \/ v2 # n2),
                      result |-> SurfaceSample(n1, n2, x, z, clock)]
        /\ earlier' \in {earlier} \cup (IF sample # None /\ sample.time = clock
                                        THEN {sample} ELSE {})
        /\ UNCHANGED <<unitVars, clock, uTime, vtx, depthVars, gameVars, detVars>>

\* the GPU runs main() on one vertex of the mesh with the uploaded uTime
VertexShade(x, z) ==
    /\ vtx' = [x |-> x, z |-> z, time |-> uTime, clock |-> clock,
               out |-> VertexMain(Vec(x, 0, z), uTime)]
    /\ UNCHANGED <<unitVars, clock, uTime, v1, v2, sample, earlier, depthVars, gameVars, detVars>>

SurfNext ==
    \/ \E delta \in FrameDeltas : WaveFrame(delta)
    \/ \E p \in SpherePoints : SurfaceQuery(p[1], p[2])

ShaderNext ==
    \/ \E delta \in FrameDeltas : WaveFrame(delta)
    \/ \E p \in Vertices : VertexShade(p[1], p[2])

SurfSpecInit == clock = 0 /\ SurfInit /\ DepthInit /\ GameInit /\ DetInit /\ UnitInit
SpecSurface == SurfSpecInit /\ [][SurfNext]_vars
SpecShader == SurfSpecInit /\ [][ShaderNext]_vars

(***************************************************************************)
(* The game: GameScene, Player and the frame loop                          *)
(***************************************************************************)
\* frames, irregular frames (delta other than FrameDelta) and changes of the
\* held keys a run may contain
MaxTicks == 6
MaxHitches == 1
MaxKeyChanges == 1
FrameDelta == 100
Deltas == { 0, FrameDelta, 250 }

\* START RIDING: onClick={() => setGameState('playing')}
ClickStart ==
    /\ gameState = "start"
    /\ gameState' = "playing"
    /\ sessionTicks' = 0
    /\ UNCHANGED <<unitVars, clock, surfVars, depthVars, detVars, crashReason, cbGameState,
                   effectPending, keys, riderVars, last, ticks, hitches, keyChanges>>

\* TRY AGAIN: onClick={() => setGameState('playing')}.  The host presses the
\* button of an overlay that is on screen, with the canvas re-rendered under it.
ClickTryAgain ==
    /\ gameState = "gameover"
    /\ cbGameState = "gameover"
    /\ gameState' = "playing"
    /\ sessionTicks' = 0
    /\ UNCHANGED <<unitVars, clock, surfVars, depthVars, detVars, crashReason, cbGameState,
                   effectPending, keys, riderVars, last, ticks, hitches, keyChanges>>

\* Player re-renders with the new gameState prop and commits: the frame
\* callback of this render replaces the installed one, and the [gameState]
\* effect is scheduled.  Pending effects are flushed before a render.  By then
\* GameScene has rendered the same gameState: the HUD is mounted with its
\* initial text under 'playing' and unmounted otherwise.
PlayerCommit ==
    /\ cbGameState # gameState
    /\ ~effectPending
    /\ cbGameState' = gameState
    /\ effectPending' = TRUE
    /\ hud' = IF gameState = "playing" THEN HudMounted ELSE None
    /\ UNCHANGED <<unitVars, clock, surfVars, depthVars, detVars, gameState, crashReason,
                   keys, s, pos, rot, clockRef, ss, camera, histVars>>

\* the [gameState] effect, with the gameState of the render that scheduled it
ResetEffect ==
    /\ effectPending
    /\ effectPending' = FALSE
    /\ IF cbGameState = "playing"
       THEN /\ s' = InitialState
            /\ pos' = StartPos(clockRef)
            /\ rot' = StartRot
            /\ last' = [kind |-> "reset", pre |-> s, prePos |-> pos]
       ELSE /\ UNCHANGED <<s, pos, rot>>
            /\ last' = [kind |-> "noreset"]
    /\ UNCHANGED <<unitVars, clock, surfVars, depthVars, detVars, gameState, crashReason,
                   cbGameState, keys, clockRef, ss, camera, hud, sessionTicks, ticks,
                   hitches, keyChanges>>

\* keydown / keyup events between two frames leave another set of keys held;
\* Player re-renders and the installed callback reads the new keys
KeyChange(k) ==
    /\ keyChanges < MaxKeyChanges
    /\ k # keys
    /\ keys' = k
    /\ keyChanges' = keyChanges + 1
    /\ UNCHANGED <<unitVars, clock, surfVars, depthVars, detVars, gameState, crashReason,
                   cbGameState, effectPending, riderVars, last, sessionTicks,
                   ticks, hitches>>

\* one frame of the canvas: the clock advances by delta, WaveSurface uploads
\* it, and the installed Player callback runs.  A delta other than FrameDelta
\* is a repeated or a stalled frame.  A callback that still steps after the
\* game state has left 'playing' finds the HUD mounted or already unmounted.
Frame(delta) ==
    \E dt \in {FrameDt(delta)}, now \in {clock + delta} :
    \E a \in {StepToCrash(s, pos, keys, dt, now)} :
    \E rec \in {[kind |-> "", delta |-> delta, dt |-> dt, gameState |-> gameState,
                 first |-> (sessionTicks = 0), pre |-> s, prePos |-> pos,
                 keys |-> keys, speedRaw |-> a.speedRaw, height |-> a.s.height,
                 verdict |-> a.verdict, now |-> now, isSnapping |-> a.isSnapping,
                 crashReason |-> crashReason,
                 pitchRate |-> a.pitchRate, rollRate |-> a.rollRate,
                 thrust |-> a.thrust, pumpThrust |-> a.pumpThrust, drag |-> a.drag,
                 groundEffect |-> a.groundEffect, totalLift |-> a.totalLift]} :
        /\ ticks < MaxTicks
        /\ delta = FrameDelta \/ hitches < MaxHitches
        /\ ticks' = ticks + 1
        /\ hitches' = IF delta = FrameDelta THEN hitches ELSE hitches + 1
        /\ clock' = now
        /\ uTime' = FrameTime(now, clock)
        /\ clockRef' = now
        /\ UNCHANGED <<unitVars, v1, v2, sample, earlier, vtx, depthVars, detVars,
                       cbGameState, effectPending, keys, keyChanges>>
        /\ IF cbGameState # "playing"
           THEN /\ ss' = [ss EXCEPT !.isPlaying = FALSE]
                /\ last' = [kind |-> "idle", delta |-> delta, gameState |-> gameState]
                /\ UNCHANGED <<s, pos, rot, camera, hud, gameState, crashReason,
                               sessionTicks>>
           ELSE /\ sessionTicks' = sessionTicks + 1
                /\ IF a.verdict # "None"
                   THEN \E c \in {CrashReturn(a.s, pos, rot, a.isSnapping, dt, now)} :
                        /\ s' = c.s
                        /\ pos' = c.pos
                        /\ rot' = c.rot
                        /\ ss' = [ss EXCEPT !.isPlaying = FALSE]
                        /\ crashReason' = Reason(a.verdict)
                        /\ gameState' = "gameover"
                        /\ last' = [rec EXCEPT !.kind = "crash"]
                        /\ UNCHANGED <<camera, hud>>
                   ELSE \E m \in {StepMove(a.s, pos, a.isSnapping, dt, now)} :
                        /\ s' = m.s
                        /\ pos' = m.pos
                        /\ rot' = m.rot
                        /\ ss' = [roll |-> m.s.roll, height |-> m.s.height,
                                  speed |-> m.s.speed, rollRate |-> a.rollRate,
                                  isSnapping |-> a.isSnapping, isPlaying |-> TRUE]
                        /\ camera' = FollowCamera(camera, m.pos, dt)
                        /\ hud' \in (IF gameState = "playing" THEN {HudText(m.s)}
                                      ELSE {HudText(m.s), None})
                        /\ last' = [rec EXCEPT !.kind = "ride"]
                        /\ UNCHANGED <<gameState, crashReason>>

Next ==
    \/ ClickStart
    \/ ClickTryAgain
    \/ PlayerCommit
    \/ ResetEffect
    \/ \E k \in HeldKeys : KeyChange(k)
    \/ \E delta \in Deltas : Frame(delta)

Init == clock = 0 /\ SurfInit /\ DepthInit /\ GameInit /\ DetInit /\ UnitInit
Spec == Init /\ [][Next]_vars

(***************************************************************************)
(* Two runs of the stepper on the same inputs                              *)
(***************************************************************************)
\* ticks of a run, and the canvas clock (ms since mount) at which run B starts
MaxDetTicks == 3
DetOffsets == { 0, 1500, 4000 }

\* a session as the reset effect leaves it when the canvas clock reads t
RunStart(t) ==
    [s |-> InitialState, pos |-> StartPos(t), clock |-> t, verdict |-> "None", n |-> 0,
     step |-> None, prev |-> None]

\* what a frame callback of a run did: the keys it read, its dt, the speed it
\* started from, the smoothed roll and the drag it charged
StepRecord(pre, k, dt, a) ==
    [keys |-> k, dt |-> dt, speed |-> pre.speed, pitch |-> a.s.pitch, roll |-> a.s.roll,
     drag |-> a.drag]

\* one frame callback of a run in state 'playing'
RunStep(r, k, delta) ==
    Bind(FrameDt(delta), LAMBDA dt :
    Bind(r.clock + delta, LAMBDA now :
    Bind(StepToCrash(r.s, r.pos, k, dt, now), LAMBDA a :
    Bind([r EXCEPT !.clock = now, !.n = r.n + 1, !.prev = r.step,
                   !.step = StepRecord(r.s, k, dt, a)], LAMBDA q :
        IF a.verdict # "None"
        THEN [q EXCEPT !.s = a.s, !.verdict = a.verdict]
        ELSE Bind(StepMove(a.s, r.pos, a.isSnapping, dt, now), LAMBDA m :
                 [q EXCEPT !.s = m.s, !.pos = m.pos])))))

\* both sessions start from the reset; run B's canvas has been up for offset ms
DetStart(offset) ==
    /\ runA = None
    /\ runA' = RunStart(0)
    /\ runB' = RunStart(offset)
    /\ UNCHANGED <<unitVars, clock, surfVars, depthVars, gameVars>>

\* both runs get the same keys and the same frame delta
DetTick(k, delta) ==
    /\ runA # None
    /\ runA.n < MaxDetTicks
    /\ runA.verdict = "None" /\ runB.verdict = "None"
    /\ runA' = RunStep(runA, k, delta)
    /\ runB' = RunStep(runB, k, delta)
    /\ UNCHANGED <<unitVars, clock, surfVars, depthVars, gameVars>>

DetNext ==
    \/ \E offset \in DetOffsets : DetStart(offset)
    \/ \E k \in HeldKeys, delta \in Deltas : DetTick(k, delta)

SpecDet == Init /\ [][DetNext]_vars

(***************************************************************************)
(* Loading WavePhysicsBridge with a wave configuration                     *)
(***************************************************************************)
\* the shipped array, one whose primary swell is steeper, one whose chop is flatter
SteepWaves == [WAVES EXCEPT ![1].steepness = 500]
FlatWaves == [WAVES EXCEPT ![3].amplitude = 40]
Configs == { WAVES, SteepWaves, FlatWaves }

\* some wave of cfg has an unclamped factor above 0.5 at some depth
Offends(cfg) ==
    \E i \in 1..Len(cfg), d \in { DEPTH_SHALLOW, DEPTH_DEEP } :
        ConfigTerms(cfg, i, d).qRaw > QCeiling

\* the module is evaluated: const WAVES = [...], const WAVE_COUNT = WAVES.length
\* and the function declarations; no statement reads the values
LoadBridge(cfg) ==
    /\ config = None
    /\ config' = cfg
    /\ loadError' = FALSE
    /\ UNCHANGED <<cfgQuery, intentVars, probeVars, sprayVars, clock, surfVars, depthVars,
                   gameVars, detVars>>

\* gerstnerDisplace(x, z, t) on the loaded array: the terms of its loop
ConfigDisplace(x, z) ==
    /\ config # None
    /\ ~loadError
    /\ cfgQuery' = [x |-> x, z |-> z,
                    terms |-> [i \in 1..Len(config) |->
                                  ConfigTerms(config, i, getDepth(x, z))]]
    /\ UNCHANGED <<config, loadError, intentVars, probeVars, sprayVars, clock, surfVars,
                   depthVars, gameVars, detVars>>

ConfigNext ==
    \/ \E cfg \in Configs : LoadBridge(cfg)
    \/ \E x \in DepthXs, z \in DepthZs : ConfigDisplace(x, z)

ConfigSpecInit ==
    /\ clock = 0 /\ SurfInit /\ DepthInit /\ GameInit /\ DetInit
    /\ config = None /\ loadError = FALSE /\ cfgQuery = None
    /\ intent = None /\ intentPrev = None
    /\ thrustCall = None
    /\ forwardCall = None
    /\ foldCall = None
    /\ pool = PoolInit
    /\ sprayLast = None
    /\ sprayFrames = 0
SpecConfig == ConfigSpecInit /\ [][ConfigNext]_vars

(***************************************************************************)
(* The input resolution of the frame callback on every set of held keys    *)
(***************************************************************************)
\* stage 1 of the callback run on the flags k
ResolveIntent(k) ==
    /\ intentPrev' = intent
    /\ intent' = [keys |-> k, out |-> Intent(k)]
    /\ UNCHANGED <<cfgVars, probeVars, sprayVars, clock, surfVars, depthVars, gameVars, detVars>>

IntentNext == \E k \in KeySets : ResolveIntent(k)

SpecIntent == Init /\ [][IntentNext]_vars

(***************************************************************************)
(* The wave thrust of the frame callback on a range of slopes and headings *)
(***************************************************************************)
\* slope components (0.001 is the threshold of slopeMag) and yaws, some of them
\* more than a turn away from 0
ThrustSlopes == { -800, -300, -1, 0, 1, 300, 800 }
ThrustYaws == { 0, 785, 1571, 2356, 3142, -785, -1571, -2356, 7068, -9000 }

\* stage 2 of the callback up to foilCatchThrust, on the slope (sx, sz), and the
\* slope thrust of the Player component on the same slope
ThrustQuery(sx, sz, yaw) ==
    /\ thrustCall' = [slope |-> [slopeX |-> sx, slopeZ |-> sz], yaw |-> yaw,
                      out |-> WaveThrust([slopeX |-> sx, slopeZ |-> sz], yaw),
                      component |-> PlayerSlopeThrust([slopeX |-> sx, slopeZ |-> sz], yaw)]
    /\ UNCHANGED <<cfgVars, intentVars, forwardCall, foldCall, sprayVars, clock, surfVars,
                   depthVars, gameVars, detVars>>

ThrustNext == \E sx \in ThrustSlopes, sz \in ThrustSlopes, yaw \in ThrustYaws :
                  ThrustQuery(sx, sz, yaw)

SpecThrust == Init /\ [][ThrustNext]_vars

(***************************************************************************)
(* The forward directions of a pose                                        *)
(***************************************************************************)
\* yaws every 30 degrees over two turns, and the two start yaws
ForwardYaws == { 524 * n : n \in -12..12 } \cup { START_YAW, COMPONENT_START_YAW }

\* stages 2 and 6 of the callback on the pose (pitch, yaw, roll): the three
\* directions, in App.tsx and in the Player component
ForwardQuery(yaw, pitch, roll) ==
    /\ forwardCall' = [yaw |-> yaw, pitch |-> pitch, roll |-> roll,
                       app |-> AppForward(yaw, pitch, roll),
                       component |-> ComponentForward(yaw, pitch, roll)]
    /\ UNCHANGED <<cfgVars, intentVars, thrustCall, foldCall, sprayVars, clock, surfVars,
                   depthVars, gameVars, detVars>>

ForwardNext == \E yaw \in ForwardYaws, pitch \in { -200, 0, 300 }, roll \in { -550, 0, 550 } :
                   ForwardQuery(yaw, pitch, roll)

SpecForward == Init /\ [][ForwardNext]_vars

(***************************************************************************)
(* gerstnerDisplace across the breaking zone                               *)
(***************************************************************************)
\* points from deep water (depth 10) through the zone where the fold fades in
\* (depth 5 to 2) to the floor of the depth (1.5), at four times of a period
FoldZs == { 60000, 72000, 74000, 76000, 78000, 80000, 84000, 88000, 92000, 96000,
            100000, 104000 }

\* gerstnerDisplace(x, z, time): the sum the loop leaves and the vector returned
DisplaceQuery(x, z, time) ==
    /\ foldCall' = [x |-> x, z |-> z, time |-> time,
                    sum |-> GerstnerSum(1, x, z, time, Vec(x, 0, z)),
                    out |-> gerstnerDisplace(x, z, time)]
    /\ UNCHANGED <<cfgVars, intentVars, thrustCall, forwardCall, sprayVars, clock, surfVars,
                   depthVars, gameVars, detVars>>

FoldNext == \E x \in { -20000, 0, 5000 }, z \in FoldZs, time \in { 0, 1500, 3000, 4500 } :
                DisplaceQuery(x, z, time)

SpecFold == Init /\ [][FoldNext]_vars

(***************************************************************************)
(* The spray particles behind the telemetry of the rider                   *)
(***************************************************************************)
\* frames of SprayParticles that a behaviour follows
MaxSprayFrames == 5

\* what Player.useFrame has left for the callback of SprayParticles: the
\* telemetry in sprayStateRef and the position and rotation of the group.  A
\* snap carve on the water, a slow carve on the rail, a high carve with the wing
\* tip near the surface after a tick with dt = 0, flat riding, and the telemetry
\* of a crash
SprayScenes ==
    { [ss |-> [roll |-> 500, height |-> 400, speed |-> 12000, rollRate |-> 2000,
               isSnapping |-> TRUE, isPlaying |-> TRUE],
       pos |-> Vec(3000, 600, 80000), rot |-> Vec(100, -1000, 500)],
      [ss |-> [roll |-> -400, height |-> 300, speed |-> 9000, rollRate |-> 0,
               isSnapping |-> FALSE, isPlaying |-> TRUE],
       pos |-> Vec(-2000, 500, 85000), rot |-> Vec(50, -2000, -400)],
      [ss |-> [roll |-> -550, height |-> 1200, speed |-> 10000, rollRate |-> NaN,
               isSnapping |-> FALSE, isPlaying |-> TRUE],
       pos |-> Vec(0, 1500, 90000), rot |-> Vec(-150, -1571, -550)],
      [ss |-> [roll |-> 0, height |-> 400, speed |-> 12000, rollRate |-> 0,
               isSnapping |-> FALSE, isPlaying |-> TRUE],
       pos |-> Vec(0, 400, 80000), rot |-> Vec(0, -1571, 0)],
      [ss |-> [roll |-> 500, height |-> -60, speed |-> 12000, rollRate |-> 2000,
               isSnapping |-> TRUE, isPlaying |-> FALSE],
       pos |-> Vec(3000, -100, 80000), rot |-> Vec(100, -1000, 500)] }

\* the values of Math.random() the model follows: the ends of [0, 1)
RandomDraws == { 0, 999 }

\* one frame: if (!group || !ss.isPlaying) return; otherwise the callback
SprayFrame(scene, delta, u) ==
    /\ sprayFrames < MaxSprayFrames
    /\ sprayFrames' = sprayFrames + 1
    /\ IF ~scene.ss.isPlaying
       THEN /\ pool' = pool
            /\ sprayLast' = [kind |-> "skipped", pre |-> pool, dt |-> 0, scene |-> scene,
                             updated |-> pool, events |-> <<>>, loops |-> <<>>]
       ELSE /\ pool' = SprayStep(pool, scene, delta, u).pool
            /\ sprayLast' = SprayStep(pool, scene, delta, u).report
    /\ UNCHANGED <<cfgVars, intentVars, probeVars, clock, surfVars, depthVars, gameVars,
                   detVars>>

SprayNext == \E scene \in SprayScenes, delta \in Deltas, u \in RandomDraws :
                 SprayFrame(scene, delta, u)

SpecSpray == Init /\ [][SprayNext]_vars

(***************************************************************************)
(* Properties                                                              *)
(***************************************************************************)
\* the last frame callback ran the stepper (the installed callback saw 'playing')
Stepped == last.kind \in {"ride", "crash"}

\* C1: after every tick of the stepper, a crash tick and the first tick after
\* a reset included, 1.0 <= speed <= 25.0
SpeedClamp == Stepped => (s.speed >= 1000 /\ s.speed <= 25000)
\* a tick whose integrated speed was not a number left the speed at the floor
SpeedClampWitness == Stepped /\ IsNaN(last.speedRaw) /\ s.speed = 1000

\* C2: a tick whose integrated height is <= -0.05 reports Touchdown and asks
\* for 'gameover' in that tick, one whose height is >= 1.3 reports Breached in
\* that tick, and a tick with a height in between reports nothing and leaves
\* the game state alone
CrashBoundary ==
    [][(ticks' # ticks /\ cbGameState = "playing") =>
        /\ (s'.height <= -50 =>
                /\ gameState' = "gameover"
                /\ crashReason' = "TOUCHDOWN! Board dug into the water.")
        /\ (s'.height >= 1300 =>
                /\ gameState' = "gameover"
                /\ crashReason' = "BREACHED! Foil wing came out of the water.")
        /\ ((s'.height > -50 /\ s'.height < 1300) =>
                UNCHANGED <<gameState, crashReason>>)]_vars
\* a tick has just breached
CrashBoundaryWitness ==
    /\ last.kind = "crash"
    /\ last.height >= 1300
    /\ gameState = "gameover"
    /\ crashReason = "BREACHED! Foil wing came out of the water."

\* C3: a tick that runs while the game state is 'start' or 'gameover' changes
\* no RiderState field and not the rider's position or rotation
FreezeAfterCrash ==
    [][(ticks' # ticks /\ gameState # "playing") => UNCHANGED <<s, pos, rot>>]_vars

\* C4: the reset effect of a render with 'playing' leaves the initial pose and
\* the start position on the surface, whatever the state was before
SessionReset ==
    last.kind = "reset" =>
        /\ s.pitch = 0 /\ s.roll = 0 /\ s.yaw = START_YAW
        /\ s.height = 400 /\ s.vY = 0 /\ s.speed = 12000
        /\ s.prevPitch = 0 /\ s.prevRoll = 0
        /\ pos.x = START_X /\ pos.z = START_Z
        /\ pos.y = getWaveHeightAt(START_X, START_Z, clock) + 400
\* a reset after a crash, some frames after the canvas was mounted
SessionResetWitness ==
    /\ last.kind = "reset"
    /\ Verdict(last.pre.height) # "None"
    /\ clock > 0

\* C5: the first tick that steps the rider after the host asked for
\* start/respawn starts from the initial pose at the start position
ResetAtomic ==
    (Stepped /\ last.first) =>
        /\ last.pre = InitialState
        /\ last.prePos.x = START_X /\ last.prePos.z = START_Z

\* C6: every tick of the stepper uses dt = min(delta, 0.1): the smoothing
\* factors stay at or below 0.5 and 0.6, and height, yaw and position move by
\* at most 0.1 s of their rates
TimestepClamp ==
    Stepped =>
        /\ last.dt = Min(last.delta, 100)
        /\ last.dt <= 100
        /\ 2 * Abs(s.pitch - last.pre.pitch)
              <= Abs(Intent(last.keys).targetPitch - last.pre.pitch) + 2
        /\ 10 * Abs(s.roll - last.pre.roll)
              <= 6 * Abs(Intent(last.keys).targetRoll - last.pre.roll) + 10
        /\ 10 * Abs(s.height - last.pre.height) <= Abs(s.vY) + 10
        /\ 1000 * Abs(s.yaw - last.pre.yaw) <= 1375 * Abs(s.roll) + 1000
        /\ 10 * Abs(pos.x - last.prePos.x) <= s.speed + 20
        /\ 10 * Abs(pos.z - last.prePos.z) <= s.speed + 20
\* a stalled frame (delta 0.25 s) stepped the rider with dt 0.1 s
TimestepClampWitness ==
    last.kind = "ride" /\ last.delta = 250 /\ last.dt = 100 /\ pos # last.prePos

\* C7: two runs from the initial pose with the same keys and the same frame
\* deltas have the same RiderState, the same horizontal position and the same
\* verdict after every tick
Determinism ==
    runA # None =>
        /\ runA.s = runB.s
        /\ runA.pos.x = runB.pos.x /\ runA.pos.z = runB.pos.z
        /\ runA.verdict = runB.verdict

\* C8: two getWaterSurfaceAt calls with the same (x, z, t) return the same
\* sample, whatever was called between them and whatever the scratch vectors held
SurfacePure ==
    (earlier # None /\ earlier.x = sample.x /\ earlier.z = sample.z
        /\ earlier.time = sample.time) => earlier.result = sample.result
\* the same query twice, the second finding the scratch vectors of another query
SurfacePureWitness ==
    /\ earlier # None
    /\ earlier.x = sample.x /\ earlier.z = sample.z /\ earlier.time = sample.time
    /\ sample.dirty

\* C9: the vertex the shader displaces with uTime is where gerstnerDisplace
\* puts it at the clock of the frame, and the shader's normal is the one the
\* CPU takes from the same finite differences
SameSurface ==
    vtx # None =>
        /\ vtx.out.displaced = gerstnerDisplace(vtx.x, vtx.z, vtx.clock)
        /\ vtx.out.normal =
              Normalize(Cross(SetV2(ZeroVec, vtx.x, vtx.z, vtx.clock),
                              SetV1(ZeroVec, vtx.x, vtx.z, vtx.clock)))
        /\ vtx.out.vDepth = getDepth(vtx.x, vtx.z)
\* a vertex in the breaking zone, displaced after the clock has advanced
SameSurfaceWitness ==
    /\ vtx # None
    /\ vtx.clock > 0
    /\ vtx.out.vDepth < BreakDeep
    /\ vtx.out.displaced # Vec(vtx.x, 0, vtx.z)

\* C10: the depth of every query is between DEPTH_SHALLOW and DEPTH_DEEP, is
\* DEPTH_DEEP at or before the reference line, and does not grow with effectiveZ
DepthBound ==
    /\ depthLast # None =>
        /\ depthLast.effectiveZ = depthLast.z - Mul(depthLast.x, SHORE_ANGLE)
        /\ depthLast.depth >= DEPTH_SHALLOW /\ depthLast.depth <= DEPTH_DEEP
        /\ depthLast.depth > 0
        /\ depthLast.effectiveZ <= SHORE_Z_CENTER => depthLast.depth = DEPTH_DEEP
    /\ (depthPrev # None /\ depthPrev.effectiveZ <= depthLast.effectiveZ)
            => depthPrev.depth >= depthLast.depth
\* a query on the slope followed by one where the floor of the depth applies
DepthBoundWitness ==
    /\ depthPrev # None
    /\ depthPrev.depth < DEPTH_DEEP /\ depthPrev.depth > DEPTH_SHALLOW
    /\ depthLast.depth = DEPTH_SHALLOW
    /\ depthLast.effectiveZ > depthPrev.effectiveZ

\* C11: for each wave component at the vertex of the last shader call, the
\* factor q the CPU and the shader use is between 0 and 0.5, and the
\* component's horizontal displacement is at most half its shoaled amplitude
QClamp ==
    vtx # None =>
        \A i \in 1..WAVE_COUNT :
            LET c == WaveTerms(i, getDepth(vtx.x, vtx.z))
                g == ShaderTerms(i, vtx.out.vDepth)
                cosF == Cos(Phase(TWO_PI, WAVES[i], vtx.x, vtx.z, vtx.clock))
                dx == Mul(Mul(Mul(c.q, c.a), WAVES[i].dirX), cosF)
                dz == Mul(Mul(Mul(c.q, c.a), WAVES[i].dirZ), cosF)
            IN  /\ c.q >= 0 /\ c.q <= 500
                /\ g.q >= 0 /\ g.q <= 500
                /\ 4 * (dx * dx + dz * dz) <= c.a * c.a
\* a vertex in the shallows, where the primary swell is amplified and displaces
\* the vertex horizontally
QClampWitness ==
    /\ vtx # None
    /\ vtx.out.vDepth = DEPTH_SHALLOW
    /\ WaveTerms(1, getDepth(vtx.x, vtx.z)).effectiveShoal > 2 * S
    /\ WaveTerms(1, getDepth(vtx.x, vtx.z)).q > 0
    /\ Cos(Phase(TWO_PI, WAVES[1], vtx.x, vtx.z, vtx.clock)) # 0

IntentTable ==
    /\ intent # None =>
        LET k == intent.keys
            o == intent.out
        IN  /\ (~k.left /\ ~k.right) => o.targetRoll = 0
            /\ (k.left /\ ~k.right) => o.targetRoll = 550
            /\ k.right => o.targetRoll = -550
            /\ (k.shift /\ o.targetRoll # 0) => o.targetPitch = 250
            /\ ~(k.shift /\ o.targetRoll # 0) =>
                    /\ (~k.up /\ ~k.down) => o.targetPitch = 50
                    /\ (k.up /\ ~k.down) => o.targetPitch = -200
                    /\ k.down => o.targetPitch = 300
    /\ (intentPrev # None /\ intentPrev.keys = intent.keys)
            => intentPrev.out = intent.out
\* the modifier with no roll key and the nose-down key, after a resolution with
\* all five flags set
IntentTableWitness ==
    /\ intentPrev # None
    /\ intentPrev.keys = [up |-> TRUE, down |-> TRUE, left |-> TRUE, right |-> TRUE,
                          shift |-> TRUE]
    /\ intentPrev.out.targetRoll = -550 /\ intentPrev.out.targetPitch = 250
    /\ intent.keys = [NoKeys EXCEPT !.shift = TRUE, !.up = TRUE]
    /\ intent.out.targetPitch = -200

\* C14: the drag of a tick is base + stall + carve drag on the speed from before
\* the tick and the smoothed pitch and roll, plus speed * 2.5 exactly when the
\* modifier is held in that tick and the smoothed |roll| exceeds 0.1; what the
\* tick before charged plays no part
SnapPenalty ==
    \A r \in {runA, runB} :
        (r # None /\ r.step # None) =>
            LET t == r.step
                plain == Mul(t.speed, 80) + Mul(Mul(Max(0, t.pitch), t.speed), 1200)
                             + Mul(Mul(Abs(t.roll), t.speed), 200)
            IN  /\ (t.keys.shift /\ Abs(t.roll) > 100)
                        => t.drag = plain + Mul(t.speed, 2500)
                /\ (~t.keys.shift \/ Abs(t.roll) <= 100) => t.drag = plain
\* a tick with the penalty, then the modifier released while |roll| is still
\* above 0.1: the penalty is gone
SnapPenaltyWitness ==
    /\ runA # None /\ runA.prev # None
    /\ runA.prev.keys.shift /\ Abs(runA.prev.roll) > 100
    /\ runA.prev.drag >= Mul(runA.prev.speed, 2500)
    /\ ~runA.step.keys.shift /\ Abs(runA.step.roll) > 100
    /\ runA.step.drag < Mul(runA.step.speed, 2500)

\* C15: the ground-effect term of a tick is (0.3 - height) * 15 > 0 when the
\* height before the tick is below 0.3, -(height - 1.0) * 10 < 0 when it is
\* above 1.0 and 0 in between, whatever the keys; it is one of the four terms
\* of the lift that moves the vertical velocity of that tick
GroundEffectBand ==
    Stepped =>
        LET h == last.pre.height
            ge == last.groundEffect
        IN  /\ h < 300 => (ge = Mul(300 - h, 15000) /\ ge > 0)
            /\ h > 1000 => (ge = -Mul(h - 1000, 10000) /\ ge < 0)
            /\ (h >= 300 /\ h <= 1000) => ge = 0
            /\ last.totalLift = Mul(Quot(s.speed, 10), GRAVITY)
                                    + Mul(Mul(s.pitch, s.speed), 3000) + ge
                                    + Mul(Mul(last.thrust.slopeMag, GRAVITY), 200)
            /\ s.vY = Mul(last.pre.vY + Mul(last.totalLift - GRAVITY, last.dt), 850)
\* a tick with no key held that started below 0.3 m: the term pushed up
GroundEffectBandWitness ==
    /\ Stepped
    /\ last.keys = NoKeys
    /\ last.pre.height < 300
    /\ last.dt > 0
    /\ last.groundEffect > 0

\* C16: a tick whose integrated speed is not a number stores the speed 1.0, the
\* stored speed is always a number, and every tick starts from a speed that is
\* a number between 1.0 and 25.0
NonFiniteSpeed ==
    /\ ~IsNaN(s.speed)
    /\ Stepped =>
        /\ IsNaN(last.speedRaw) => s.speed = 1000
        /\ ~IsNaN(last.pre.speed)
        /\ last.pre.speed >= 1000 /\ last.pre.speed <= 25000
\* a frame with delta 0: both rates are 0 / 0, the pump thrust and the
\* integrated speed are not numbers, and the tick stored 1.0
NonFiniteSpeedWitness ==
    /\ Stepped
    /\ last.dt = 0
    /\ IsNaN(last.pitchRate) /\ IsNaN(last.rollRate) /\ IsNaN(last.pumpThrust)
    /\ IsNaN(last.speedRaw)
    /\ last.pre.speed = 12000
    /\ s.speed = 1000

\* C17: the verdict of a tick is decided by the height the tick leaves alone;
\* the game state leaves 'playing' only in a tick whose height is <= -0.05 or
\* >= 1.3; a tick that leaves the speed at the floor 1.0 and the height in
\* between changes neither the game state nor the crash reason
NoStallCrash ==
    [][/\ (gameState = "playing" /\ gameState' # "playing") =>
            /\ ticks' # ticks
            /\ gameState' = "gameover"
            /\ (s'.height <= -50 \/ s'.height >= 1300)
       /\ (ticks' # ticks /\ cbGameState = "playing") =>
            /\ last'.verdict = (IF s'.height <= -50 THEN "Touchdown"
                                ELSE IF s'.height >= 1300 THEN "Breached" ELSE "None")
            /\ (s'.speed = 1000 /\ s'.height > -50 /\ s'.height < 1300) =>
                    (last'.kind = "ride" /\ UNCHANGED <<gameState, crashReason>>)]_vars
\* the rider at the speed floor, riding on
NoStallCrashWitness ==
    /\ last.kind = "ride"
    /\ s.speed = 1000
    /\ last.verdict = "None"
    /\ gameState = "playing"

\* C18: the game state starts at 'start' and is always 'start', 'playing' or
\* 'gameover'; it changes only from 'start' to 'playing' and from 'gameover' to
\* 'playing' outside the frame callback, and from 'playing' to 'gameover' in a
\* tick with a crash verdict; 'start' is not entered again; in 'gameover' the
\* crash reason is the text of the verdict of the last crash tick
GameStateMachine ==
    /\ gameState = "start"
    /\ [](gameState \in {"start", "playing", "gameover"})
    /\ [](gameState = "gameover" =>
            crashReason \in {"TOUCHDOWN! Board dug into the water.",
                             "BREACHED! Foil wing came out of the water."})
    /\ [][gameState' # gameState =>
            \/ gameState = "start" /\ gameState' = "playing" /\ ticks' = ticks
            \/ /\ gameState = "playing" /\ gameState' = "gameover"
               /\ ticks' # ticks /\ last'.kind = "crash"
            \/ gameState = "gameover" /\ gameState' = "playing" /\ ticks' = ticks]_vars
    /\ [][(ticks' # ticks /\ last'.kind = "crash") =>
            /\ gameState' = "gameover"
            /\ (last'.verdict = "Touchdown" =>
                    crashReason' = "TOUCHDOWN! Board dug into the water.")
            /\ (last'.verdict = "Breached" =>
                    crashReason' = "BREACHED! Foil wing came out of the water.")]_vars
    /\ [][(gameState' = "gameover" /\ ~(ticks' # ticks /\ last'.kind = "crash")) =>
            crashReason' = crashReason]_vars
\* the crash of a second session: the reason of the first was still stored
\* when the tick began
GameStateMachineWitness ==
    /\ gameState = "gameover"
    /\ last.kind = "crash"
    /\ last.gameState = "playing"
    /\ last.crashReason # ""
    /\ crashReason = Reason(last.verdict)

\* C19: a tick with a crash verdict leaves yaw, the camera yaw, the group
\* position and rotation, the camera and the HUD text as they were, and of the
\* spray telemetry changes isPlaying only
CrashTickFreeze ==
    [][(ticks' # ticks /\ cbGameState = "playing" /\ last'.verdict # "None") =>
            /\ s'.yaw = s.yaw /\ s'.cameraYaw = s.cameraYaw
            /\ pos' = pos /\ rot' = rot
            /\ camera' = camera /\ hud' = hud
            /\ ss' = [ss EXCEPT !.isPlaying = FALSE]]_vars
\* a crash tick with the board rolled: its yaw stage would have turned the
\* rider; the pose is the one of the tick before and the spray is switched off
CrashTickFreezeWitness ==
    /\ last.kind = "crash"
    /\ s.roll # 0 /\ last.dt > 0
    /\ s.yaw = last.pre.yaw
    /\ pos = last.prePos
    /\ pos # StartPos(0)
    /\ ss.roll # 0 /\ ~ss.isPlaying
    /\ hud # None

\* C20: in one tick prevPitch / prevRoll take the values from before the
\* smoothing and the rates compare them with the smoothed values; drag is taken
\* on the speed from before the integration and the smoothed pitch and roll;
\* lift on the integrated, clamped speed and the height from before the
\* vertical step; vY is updated and damped before the height advances with it;
\* the verdict reads the advanced height; yaw turns before the position moves,
\* and the position moves along the turned yaw
StageOrder ==
    Stepped =>
        LET pre == last.pre
            dt == last.dt
            in == Intent(last.keys)
        IN  /\ s.prevPitch = pre.pitch /\ s.prevRoll = pre.roll
            /\ s.pitch = Lerp(pre.pitch, in.targetPitch, 5 * dt)
            /\ s.roll = Lerp(pre.roll, in.targetRoll, 6 * dt)
            /\ last.pitchRate = Rate(s.pitch, s.prevPitch, dt)
            /\ last.rollRate = Rate(s.roll, s.prevRoll, dt)
            /\ last.drag = Drag(pre.speed, s.pitch, s.roll, in.isSnapping)
            /\ last.speedRaw =
                  SpeedRaw(pre.speed,
                           last.thrust.waveSlopeThrust + last.thrust.foilCatchThrust,
                           last.pumpThrust, last.drag, dt)
            /\ last.totalLift = TotalLift(s.speed, s.pitch, pre.height, last.thrust.slopeMag)
            /\ s.vY = Mul(pre.vY + Mul(last.totalLift - GRAVITY, dt), 850)
            /\ s.height = pre.height + Mul(s.vY, dt)
            /\ last.verdict = (IF s.height <= -50 THEN "Touchdown"
                               ELSE IF s.height >= 1300 THEN "Breached" ELSE "None")
            /\ last.kind = "crash" => s.yaw = pre.yaw
            /\ last.kind = "ride" =>
                /\ s.yaw = pre.yaw +
                      Mul(Mul(Mul(Mul(s.roll, dt), 5500),
                              IF in.isSnapping THEN 2500 ELSE S),
                          IF in.isSnapping THEN S ELSE Ratio(10000, Max(s.speed, 10000)))
                /\ pos.x = last.prePos.x + Mul(Mul(-Sin(s.yaw), s.speed), dt)
                /\ pos.z = last.prePos.z + Mul(Mul(-Cos(s.yaw), s.speed), dt)
                /\ pos.y = getWaveHeightAt(pos.x, pos.z, last.now) + s.height
                /\ rot = Vec(s.pitch, s.yaw, s.roll)
\* a tick in which every stage changed its quantity, so that each order shows:
\* the turn changed where the position went
StageOrderWitness ==
    /\ last.kind = "ride" /\ last.dt > 0
    /\ s.pitch # last.pre.pitch /\ s.roll # last.pre.roll
    /\ s.speed # last.pre.speed
    /\ s.vY # last.pre.vY /\ s.height # last.pre.height
    /\ s.yaw # last.pre.yaw
    /\ last.drag # Drag(s.speed, last.pre.pitch, last.pre.roll, Intent(last.keys).isSnapping)
    /\ last.totalLift
          # TotalLift(last.pre.speed, s.pitch, s.height, last.thrust.slopeMag)
    /\ pos.x # last.prePos.x + Mul(Mul(-Sin(last.pre.yaw), s.speed), last.dt)

\* C21: a tick of the stepper whose dt is 0 changes none of speed, vertical
\* velocity, height, pitch, roll, yaw or world position
ZeroDtTick ==
    [][(ticks' # ticks /\ cbGameState = "playing" /\ last'.dt = 0) =>
            /\ s'.speed = s.speed /\ s'.vY = s.vY /\ s'.height = s.height
            /\ s'.pitch = s.pitch /\ s'.roll = s.roll /\ s'.yaw = s.yaw
            /\ pos' = pos]_vars

\* the error three decimals and the tabulated sine leave in a unit ratio
Slack == 5

\* C22: the foil-catch thrust is |slope| * 1.5 * m with m = 1 when the slope
\* projected on the forward direction is <= 0 or |slope| <= 0.001, and
\* m = 1 - 0.5 * (projection / |slope|) when the projection is positive; m is
\* 0.5 (to Slack) when the rider heads straight up the slope, m is between 0.5 and 1, and
\* the thrust is never negative
FoilCatch ==
    thrustCall # None =>
        LET o == thrustCall.out
            sx == thrustCall.slope.slopeX
            sz == thrustCall.slope.slopeZ
            proj == Mul(sx, -Sin(thrustCall.yaw)) + Mul(sz, -Cos(thrustCall.yaw))
            mag == ISqrt(sx * sx + sz * sz)
            m == S - Mul(500, o.uphillRatio)
            across == Mul(sx, -Cos(thrustCall.yaw)) - Mul(sz, -Sin(thrustCall.yaw))
        IN  /\ o.foilCatchThrust = Mul(Mul(mag, 1500), m)
            /\ (proj <= 0 \/ mag <= 1) => m = 1000
            /\ (proj > 0 /\ mag > 1) => m = 1000 - Mul(500, Ratio(proj, mag))
            /\ (proj > 0 /\ mag > 1 /\ across = 0) => Abs(m - 500) <= Slack
            /\ m >= 500 /\ m <= 1000
            /\ o.foilCatchThrust >= 0
\* the rider heads straight up a slope of 0.8: the multiplier is halved
FoilCatchWitness ==
    /\ thrustCall # None
    /\ thrustCall.slope = [slopeX |-> 0, slopeZ |-> 800]
    /\ thrustCall.out.slopeInDirection > 0
    /\ thrustCall.out.uphillRatio = 1000
    /\ thrustCall.out.foilCatchThrust = 600

\* C23: the wave-slope thrust is -(slope . forward) * gravity * coefficient: above
\* 0 when the slope projected on the forward direction is negative, below 0
\* when it is positive and 0 when it is 0, for every yaw, in App.tsx and in the
\* Player component
SlopeThrustSign ==
    thrustCall # None =>
        LET sx == thrustCall.slope.slopeX
            sz == thrustCall.slope.slopeZ
            proj == Mul(sx, -Sin(thrustCall.yaw)) + Mul(sz, -Cos(thrustCall.yaw))
            projC == Mul(sx, Sin(thrustCall.yaw)) + Mul(sz, -Cos(thrustCall.yaw))
            w == thrustCall.out.waveSlopeThrust
            wC == thrustCall.component.waveSlopeThrust
        IN  /\ w = Mul(Mul(-proj, 9800), 350)
            /\ proj < 0 => w > 0
            /\ proj > 0 => w < 0
            /\ proj = 0 => w = 0
            /\ wC = Mul(Mul(-projC, 9800), 800)
            /\ projC < 0 => wC > 0
            /\ projC > 0 => wC < 0
            /\ projC = 0 => wC = 0
\* the rider heads down a face of slope 0.8: the wave pushes
SlopeThrustSignWitness ==
    /\ thrustCall # None
    /\ thrustCall.slope = [slopeX |-> 0, slopeZ |-> 800]
    /\ thrustCall.yaw = 0
    /\ thrustCall.out.slopeInDirection = -800
    /\ thrustCall.out.waveSlopeThrust = 2744
    /\ thrustCall.component.waveSlopeThrust > 0

\* the error the tabulated sine leaves in a direction built from half angles and
\* from products of sines: 0.02 rad
HeadingSlack == 20
\* two horizontal directions agree: no sideways component (to HeadingSlack) and
\* a positive component along each other
SameHeading(u, v) ==
    /\ Abs(Mul(u.x, v.z) - Mul(u.z, v.x)) <= HeadingSlack
    /\ Mul(u.x, v.x) + Mul(u.z, v.z) > 0

\* the three directions of App.tsx agree for every pose, the projection
\* direction is (-sin yaw, -cos yaw), yaw 0 faces -Z and the start yaw faces +X
AppForwardConvention ==
    forwardCall # None =>
        LET f == forwardCall.app
        IN  /\ f.slope = Vec(-Sin(forwardCall.yaw), 0, -Cos(forwardCall.yaw))
            /\ SameHeading(f.slope, f.move)
            /\ SameHeading(f.move, f.facing)
            /\ forwardCall.yaw = 0 => (f.move.z < 0 /\ Abs(f.move.x) <= HeadingSlack)
            /\ forwardCall.yaw = START_YAW => (f.move.x > 0 /\ Abs(f.move.z) <= HeadingSlack)

\* C24: wherever the stepper is written, for every yaw the direction the slope
\* is projected on is (-sin yaw, -cos yaw), it is the direction the position
\* advances along and the direction the displayed board faces; yaw 0 faces -Z
\* and the start yaw faces +X
ForwardConvention ==
    /\ AppForwardConvention
    /\ forwardCall # None =>
        LET f == forwardCall.component
        IN  /\ f.slope = Vec(-Sin(forwardCall.yaw), 0, -Cos(forwardCall.yaw))
            /\ SameHeading(f.slope, f.move)
            /\ SameHeading(f.move, f.facing)
            /\ forwardCall.yaw = 0 => (f.move.z < 0 /\ Abs(f.move.x) <= HeadingSlack)
            /\ forwardCall.yaw = COMPONENT_START_YAW
                    => (f.move.x > 0 /\ Abs(f.move.z) <= HeadingSlack)

\* C25: at depth >= 5.0, and wherever the sine of the primary wave's own phase
\* is <= 0, gerstnerDisplace returns the plain sum of the components; where it
\* folds, x is the sum's, a y at or below 0 is unchanged, y never exceeds the
\* y of the sum, and z is moved toward +Z or not at all
BreakingFoldZone ==
    foldCall # None =>
        LET depth == getDepth(foldCall.x, foldCall.z)
            sinF0 == Sin(Phase(TWO_PI, WAVES[1], foldCall.x, foldCall.z, foldCall.time))
            sum == foldCall.sum
            out == foldCall.out
        IN  /\ (depth >= 5000 \/ sinF0 <= 0) => out = sum
            /\ out.x = sum.x
            /\ sum.y <= 0 => out.y = sum.y
            /\ out.y <= sum.y
            /\ out.z >= sum.z
\* a crest of the primary wave in the shallows: the lip is lowered and thrown
\* toward +Z
BreakingFoldZoneWitness ==
    /\ foldCall # None
    /\ getDepth(foldCall.x, foldCall.z) < 5000
    /\ Sin(Phase(TWO_PI, WAVES[1], foldCall.x, foldCall.z, foldCall.time)) > 0
    /\ foldCall.sum.y > 0
    /\ foldCall.out.y < foldCall.sum.y
    /\ foldCall.out.z > foldCall.sum.z

\* C26: in every displacement query the shoaling multiplier of each wave is >= 1
\* and is 1 at depth DEPTH_DEEP, where amplitude and steepness are the
\* configured ones (the steepness capped at 0.4); the primary wave gets
\* 1 / sqrt(max(depth / DEPTH_DEEP, 0.05)) and every other wave 1 + 0.3 *
\* (that factor - 1), never more than the primary; amplitude and steepness are
\* scaled by the same multiplier and the steepness is then capped at 0.4; the
\* shader scales the shipped waves the same way
WeightedShoaling ==
    cfgQuery # None =>
        LET depth == getDepth(cfgQuery.x, cfgQuery.z)
            factor == Ratio(1000, Sqrt(Max(Ratio(depth, 10000), 50)))
        IN  \A i \in 1..Len(config) :
                LET c == cfgQuery.terms[i]
                    g == ShaderTerms(i, shaderGetDepth(cfgQuery.x, cfgQuery.z))
                IN  /\ c.effectiveShoal >= 1000
                    /\ depth = 10000 =>
                          /\ c.effectiveShoal = 1000
                          /\ c.a = config[i].amplitude
                          /\ c.steepness = Min(config[i].steepness, 400)
                    /\ i = 1 => c.effectiveShoal = factor
                    /\ i # 1 => c.effectiveShoal = 1000 + Mul(factor - 1000, 300)
                    /\ cfgQuery.terms[1].effectiveShoal >= c.effectiveShoal
                    /\ c.a = Mul(config[i].amplitude, c.effectiveShoal)
                    /\ c.steepness = Min(Mul(config[i].steepness, c.effectiveShoal), 400)
                    /\ c.steepness <= 400
                    /\ config = WAVES =>
                          /\ g.effectiveShoal = c.effectiveShoal
                          /\ g.a = c.a /\ g.steepness = c.steepness
\* a query at the floor of the depth on the array with the steeper swell: the
\* primary wave is amplified more than the chop and its steepness is capped
WeightedShoalingWitness ==
    /\ cfgQuery # None
    /\ config = SteepWaves
    /\ getDepth(cfgQuery.x, cfgQuery.z) = DEPTH_SHALLOW
    /\ cfgQuery.terms[1].effectiveShoal > 2000
    /\ cfgQuery.terms[2].effectiveShoal > 1000
    /\ cfgQuery.terms[2].effectiveShoal < cfgQuery.terms[1].effectiveShoal
    /\ cfgQuery.terms[1].steepness = 400
    /\ Mul(config[1].steepness, cfgQuery.terms[1].effectiveShoal) > 400

\* C27: pitch is always between -0.2 and 0.3 and roll between -0.55 and 0.55;
\* a tick moves pitch by the fraction 5 * dt <= 0.5 and roll by the fraction
\* 6 * dt <= 0.6 of their distance to the targets, toward the targets and not
\* beyond them
OrientationRange ==
    /\ s.pitch >= -200 /\ s.pitch <= 300
    /\ s.roll >= -550 /\ s.roll <= 550
    /\ Stepped =>
        LET tp == Intent(last.keys).targetPitch
            tr == Intent(last.keys).targetRoll
            p0 == last.pre.pitch
            r0 == last.pre.roll
        IN  /\ last.dt >= 0 /\ 5 * last.dt <= 500 /\ 6 * last.dt <= 600
            /\ tp \in {-200, 50, 250, 300} /\ tr \in {-550, 0, 550}
            /\ Min(p0, tp) <= s.pitch /\ s.pitch <= Max(p0, tp)
            /\ Min(r0, tr) <= s.roll /\ s.roll <= Max(r0, tr)
            /\ Abs(1000 * (s.pitch - p0) - 5 * last.dt * (tp - p0)) < 1000
            /\ Abs(1000 * (s.roll - r0) - 6 * last.dt * (tr - r0)) < 1000
\* a second tick of a snap to the left: pitch and roll are on their way to
\* 0.25 and 0.55, roll having closed the larger part of its distance
OrientationRangeWitness ==
    /\ last.kind = "ride" /\ last.dt = 100
    /\ last.keys.left /\ last.keys.shift
    /\ last.pre.roll > 0 /\ s.roll > last.pre.roll /\ s.roll < 550
    /\ last.pre.pitch > 0 /\ s.pitch > last.pre.pitch /\ s.pitch < 250
    /\ (s.roll - last.pre.roll) * (250 - last.pre.pitch)
          > (s.pitch - last.pre.pitch) * (550 - last.pre.roll)

\* C28: once a tick has reported a crash, no frame reports a verdict or steps
\* the rider until the reset: a frame that runs while the game state is
\* 'gameover' leaves RiderState, the pose, the crash reason and the game state
\* alone, whether or not Player has re-rendered
CrashReportedOnce ==
    [][(ticks' # ticks /\ gameState = "gameover") =>
            /\ last'.kind = "idle"
            /\ UNCHANGED <<s, pos, rot, crashReason, gameState>>]_vars


\* C29: a spawn of the spray pool writes only into a slot whose life is <= 0 and
\* leaves every other slot alone; when every slot is live the spawn is dropped
\* and no slot changes, and a spawn is dropped only then; nextSlot stays inside
\* the pool and the live particles never outnumber the slots.
PoolNeverOverwrites ==
    /\ pool.nextSlot >= 0 /\ pool.nextSlot < PoolSize
    /\ Cardinality({i \in DOMAIN pool.slots : pool.slots[i].life > 0}) <= PoolSize
    /\ DOMAIN pool.slots = 0 .. (PoolSize - 1)
    /\ sprayLast # None =>
           \A k \in 1 .. Len(sprayLast.events) :
               LET e == sprayLast.events[k] IN
                   /\ e.nextSlot >= 0 /\ e.nextSlot < PoolSize
                   /\ e.full <=> e.idx = -1
                   /\ e.idx = -1 => e.after = e.before
                   /\ e.idx # -1 =>
                          /\ e.idx \in DOMAIN e.before
                          /\ e.before[e.idx].life <= 0
                          /\ e.lifeBefore <= 0
                          /\ e.after[e.idx].life > 0
                          /\ \A i \in DOMAIN e.before : i # e.idx => e.after[i] = e.before[i]

\* a frame in which one spawn took over the slot of an expired particle and a
\* later spawn met a pool with every slot live
PoolNeverOverwritesWitness ==
    /\ sprayLast # None
    /\ \E k \in 1 .. Len(sprayLast.events) :
           /\ sprayLast.events[k].idx >= 0
           /\ sprayLast.events[k].before[sprayLast.events[k].idx].maxLife > 0
    /\ \E k \in 1 .. Len(sprayLast.events) :
           /\ sprayLast.events[k].full
           /\ sprayLast.events[k].idx = -1


\* C30: every emission loop of a frame ends, also when the pool is full and
\* its spawns are dropped; at the end of a frame the accumulator of an emitter
\* whose condition held is in [0, 1) and the accumulator of an emitter whose
\* condition did not hold is exactly 0; a frame with sprayState.isPlaying false
\* changes no particle and no accumulator.
EmissionLoopsEnd ==
    sprayLast # None =>
        /\ sprayLast.kind = "skipped" =>
               /\ ~sprayLast.scene.ss.isPlaying
               /\ pool = sprayLast.pre
               /\ sprayLast.events = <<>>
        /\ sprayLast.kind = "ran" =>
               /\ sprayLast.scene.ss.isPlaying
               /\ Len(sprayLast.loops) = 4
               /\ {sprayLast.loops[k].emitter : k \in 1 .. 4}
                      = {"accRail", "accMast", "accFoil", "accSnap"}
               /\ \A k \in 1 .. 4 :
                      LET loop == sprayLast.loops[k] IN
                          /\ loop.done
                          /\ loop.active => pool[loop.emitter] >= 0 /\ pool[loop.emitter] < 1000
                          /\ ~loop.active => pool[loop.emitter] = 0 /\ loop.iterations = 0

\* a frame in which a loop ran more than once against a pool with every slot
\* live, while another emitter without its condition dropped what it had
\* accumulated
EmissionLoopsEndWitness ==
    /\ sprayLast # None
    /\ sprayLast.kind = "ran"
    /\ \E k \in 1 .. Len(sprayLast.loops) :
           /\ sprayLast.loops[k].active
           /\ sprayLast.loops[k].iterations >= 2
    /\ Len(sprayLast.events) >= 2
    /\ \A k \in 1 .. Len(sprayLast.events) : sprayLast.events[k].idx = -1
    /\ \E k \in 1 .. Len(sprayLast.loops) :
           /\ ~sprayLast.loops[k].active
           /\ sprayLast.pre[sprayLast.loops[k].emitter] > 0

=============================================================================
